---------------------------- MODULE Spec2Model ----------------------------
(***************************************************************************)
(* Memory Indexing & Retrieval Engine of claude-orchestration:             *)
(*   - SemanticSearch (src/src/memory/semantic-search.ts)                  *)
(*   - ImportResolver (src/src/memory/memory-linter.ts, second half)       *)
(* JavaScript strings are TLA+ strings; the string functions of the code   *)
(* (toLowerCase, replace, split, match, includes ...) are computed on the  *)
(* string's characters, Chars(s), a sequence of one-character strings.     *)
(***************************************************************************)
EXTENDS Integers, Sequences, FiniteSets, TLC

(***************************************************************************)
(* Characters and strings                                                  *)
(***************************************************************************)

\* The characters of the strings of this model: the texts and paths callers
\* hand over, the file contents, and the keywords and entities of the texts.
\* The table is written as a balanced tree of @@, which keeps its
\* evaluation shallow.
CharTable ==
    (
     (
      (
       (
        (
         (
          (
           "Use 'npm test' to run tests before deploying to production" :> << "U", "s", "e", " ", "'", "n", "p", "m", " ", "t", "e", "s", "t", "'", " ", "t", "o", " ", "r", "u", "n", " ", "t", "e", "s", "t", "s", " ", "b", "e", "f", "o", "r", "e", " ", "d", "e", "p", "l", "o", "y", "i", "n", "g", " ", "t", "o", " ", "p", "r", "o", "d", "u", "c", "t", "i", "o", "n" >>
           @@
           "Deployment pipeline failed because of missing environment variable" :> << "D", "e", "p", "l", "o", "y", "m", "e", "n", "t", " ", "p", "i", "p", "e", "l", "i", "n", "e", " ", "f", "a", "i", "l", "e", "d", " ", "b", "e", "c", "a", "u", "s", "e", " ", "o", "f", " ", "m", "i", "s", "s", "i", "n", "g", " ", "e", "n", "v", "i", "r", "o", "n", "m", "e", "n", "t", " ", "v", "a", "r", "i", "a", "b", "l", "e" >>
          )
          @@
          (
           "deploy tests" :> << "d", "e", "p", "l", "o", "y", " ", "t", "e", "s", "t", "s" >>
           @@
           "__proto__ pollution" :> << "_", "_", "p", "r", "o", "t", "o", "_", "_", " ", "p", "o", "l", "l", "u", "t", "i", "o", "n" >>
          )
         )
         @@
         (
          (
           "John Smith uses API" :> << "J", "o", "h", "n", " ", "S", "m", "i", "t", "h", " ", "u", "s", "e", "s", " ", "A", "P", "I" >>
           @@
           "__proto__" :> << "_", "_", "p", "r", "o", "t", "o", "_", "_" >>
          )
          @@
          (
           "/r" :> << "/", "r" >>
           @@
           (
            "/r/a.md" :> << "/", "r", "/", "a", ".", "m", "d" >>
            @@
            "b.md" :> << "b", ".", "m", "d" >>
           )
          )
         )
        )
        @@
        (
         (
          (
           "/r/c1.md" :> << "/", "r", "/", "c", "1", ".", "m", "d" >>
           @@
           "/r/c2.md" :> << "/", "r", "/", "c", "2", ".", "m", "d" >>
          )
          @@
          (
           "/r/c3.md" :> << "/", "r", "/", "c", "3", ".", "m", "d" >>
           @@
           (
            "/r/c4.md" :> << "/", "r", "/", "c", "4", ".", "m", "d" >>
            @@
            "/r/p.md" :> << "/", "r", "/", "p", ".", "m", "d" >>
           )
          )
         )
         @@
         (
          (
           "/r/s1.md" :> << "/", "r", "/", "s", "1", ".", "m", "d" >>
           @@
           "/r/locked.md" :> << "/", "r", "/", "l", "o", "c", "k", "e", "d", ".", "m", "d" >>
          )
          @@
          (
           "/r/none.md" :> << "/", "r", "/", "n", "o", "n", "e", ".", "m", "d" >>
           @@
           (
            "intro @b.md" :> << "i", "n", "t", "r", "o", " ", "@", "b", ".", "m", "d" >>
            @@
            "back to @a.md" :> << "b", "a", "c", "k", " ", "t", "o", " ", "@", "a", ".", "m", "d" >>
           )
          )
         )
        )
       )
       @@
       (
        (
         (
          (
           "@c2.md" :> << "@", "c", "2", ".", "m", "d" >>
           @@
           "@c3.md" :> << "@", "c", "3", ".", "m", "d" >>
          )
          @@
          (
           "@c4.md" :> << "@", "c", "4", ".", "m", "d" >>
           @@
           "end" :> << "e", "n", "d" >>
          )
         )
         @@
         (
          (
           "@s1.md @gone.md @x.exe @./p.md @locked.md @/r/s2.md @http://h/y.md" :> << "@", "s", "1", ".", "m", "d", " ", "@", "g", "o", "n", "e", ".", "m", "d", " ", "@", "x", ".", "e", "x", "e", " ", "@", ".", "/", "p", ".", "m", "d", " ", "@", "l", "o", "c", "k", "e", "d", ".", "m", "d", " ", "@", "/", "r", "/", "s", "2", ".", "m", "d", " ", "@", "h", "t", "t", "p", ":", "/", "/", "h", "/", "y", ".", "m", "d" >>
           @@
           "one @leaf.md" :> << "o", "n", "e", " ", "@", "l", "e", "a", "f", ".", "m", "d" >>
          )
          @@
          (
           "leaf" :> << "l", "e", "a", "f" >>
           @@
           (
            "binary" :> << "b", "i", "n", "a", "r", "y" >>
            @@
            "secret" :> << "s", "e", "c", "r", "e", "t" >>
           )
          )
         )
        )
        @@
        (
         (
          (
           "two" :> << "t", "w", "o" >>
           @@
           ".md" :> << ".", "m", "d" >>
          )
          @@
          (
           ".txt" :> << ".", "t", "x", "t" >>
           @@
           (
            ".yaml" :> << ".", "y", "a", "m", "l" >>
            @@
            ".yml" :> << ".", "y", "m", "l" >>
           )
          )
         )
         @@
         (
          (
           ".json" :> << ".", "j", "s", "o", "n" >>
           @@
           "before" :> << "b", "e", "f", "o", "r", "e" >>
          )
          @@
          (
           "failed" :> << "f", "a", "i", "l", "e", "d" >>
           @@
           (
            "use" :> << "u", "s", "e" >>
            @@
            "npm" :> << "n", "p", "m" >>
           )
          )
         )
        )
       )
      )
      @@
      (
       (
        (
         (
          (
           "test" :> << "t", "e", "s", "t" >>
           @@
           "run" :> << "r", "u", "n" >>
          )
          @@
          (
           "tests" :> << "t", "e", "s", "t", "s" >>
           @@
           "deploying" :> << "d", "e", "p", "l", "o", "y", "i", "n", "g" >>
          )
         )
         @@
         (
          (
           "production" :> << "p", "r", "o", "d", "u", "c", "t", "i", "o", "n" >>
           @@
           "deployment" :> << "d", "e", "p", "l", "o", "y", "m", "e", "n", "t" >>
          )
          @@
          (
           "pipeline" :> << "p", "i", "p", "e", "l", "i", "n", "e" >>
           @@
           (
            "because" :> << "b", "e", "c", "a", "u", "s", "e" >>
            @@
            "missing" :> << "m", "i", "s", "s", "i", "n", "g" >>
           )
          )
         )
        )
        @@
        (
         (
          (
           "environment" :> << "e", "n", "v", "i", "r", "o", "n", "m", "e", "n", "t" >>
           @@
           "variable" :> << "v", "a", "r", "i", "a", "b", "l", "e" >>
          )
          @@
          (
           "deploy" :> << "d", "e", "p", "l", "o", "y" >>
           @@
           (
            "pollution" :> << "p", "o", "l", "l", "u", "t", "i", "o", "n" >>
            @@
            "john" :> << "j", "o", "h", "n" >>
           )
          )
         )
         @@
         (
          (
           "smith" :> << "s", "m", "i", "t", "h" >>
           @@
           "uses" :> << "u", "s", "e", "s" >>
          )
          @@
          (
           "api" :> << "a", "p", "i" >>
           @@
           (
            "Use" :> << "U", "s", "e" >>
            @@
            "API" :> << "A", "P", "I" >>
           )
          )
         )
        )
       )
       @@
       (
        (
         (
          (
           "John" :> << "J", "o", "h", "n" >>
           @@
           "Smith" :> << "S", "m", "i", "t", "h" >>
          )
          @@
          (
           "Deployment" :> << "D", "e", "p", "l", "o", "y", "m", "e", "n", "t" >>
           @@
           (
            "John Smith" :> << "J", "o", "h", "n", " ", "S", "m", "i", "t", "h" >>
            @@
            "deploy deploy tests" :> << "d", "e", "p", "l", "o", "y", " ", "d", "e", "p", "l", "o", "y", " ", "t", "e", "s", "t", "s" >>
           )
          )
         )
         @@
         (
          (
           "k01 k01 k01 k02 k02 k02 k03 k03 k03 k04 k04 k04 k05 k05 k05 k06 k06 k06 k07 k07 k07 k08 k08 k08 k09 k09 k09 k10 k10 k10 k11 k11 k11 k12 k12 k12 k13 k13 k13 k14 k14 k14 k15 k15 k15 k16 k16 k16 k17 k17 k17 k18 k18 k18 k19 k19 k19 k20 k20 k20 k21 k21 k21" :> << "k", "0", "1", " ", "k", "0", "1", " ", "k", "0", "1", " ", "k", "0", "2", " ", "k", "0", "2", " ", "k", "0", "2", " ", "k", "0", "3", " ", "k", "0", "3", " ", "k", "0", "3", " ", "k", "0", "4", " ", "k", "0", "4", " ", "k", "0", "4", " ", "k", "0", "5", " ", "k", "0", "5", " ", "k", "0", "5", " ", "k", "0", "6", " ", "k", "0", "6", " ", "k", "0", "6", " ", "k", "0", "7", " ", "k", "0", "7", " ", "k", "0", "7", " ", "k", "0", "8", " ", "k", "0", "8", " ", "k", "0", "8", " ", "k", "0", "9", " ", "k", "0", "9", " ", "k", "0", "9", " ", "k", "1", "0", " ", "k", "1", "0", " ", "k", "1", "0", " ", "k", "1", "1", " ", "k", "1", "1", " ", "k", "1", "1", " ", "k", "1", "2", " ", "k", "1", "2", " ", "k", "1", "2", " ", "k", "1", "3", " ", "k", "1", "3", " ", "k", "1", "3", " ", "k", "1", "4", " ", "k", "1", "4", " ", "k", "1", "4", " ", "k", "1", "5", " ", "k", "1", "5", " ", "k", "1", "5", " ", "k", "1", "6", " ", "k", "1", "6", " ", "k", "1", "6", " ", "k", "1", "7", " ", "k", "1", "7", " ", "k", "1", "7", " ", "k", "1", "8", " ", "k", "1", "8", " ", "k", "1", "8", " ", "k", "1", "9", " ", "k", "1", "9", " ", "k", "1", "9", " ", "k", "2", "0", " ", "k", "2", "0", " ", "k", "2", "0", " ", "k", "2", "1", " ", "k", "2", "1", " ", "k", "2", "1" >>
           @@
           "k01" :> << "k", "0", "1" >>
          )
          @@
          (
           "k02" :> << "k", "0", "2" >>
           @@
           (
            "k03" :> << "k", "0", "3" >>
            @@
            "k04" :> << "k", "0", "4" >>
           )
          )
         )
        )
        @@
        (
         (
          (
           "k05" :> << "k", "0", "5" >>
           @@
           "k06" :> << "k", "0", "6" >>
          )
          @@
          (
           "k07" :> << "k", "0", "7" >>
           @@
           (
            "k08" :> << "k", "0", "8" >>
            @@
            "k09" :> << "k", "0", "9" >>
           )
          )
         )
         @@
         (
          (
           "k10" :> << "k", "1", "0" >>
           @@
           "k11" :> << "k", "1", "1" >>
          )
          @@
          (
           "k12" :> << "k", "1", "2" >>
           @@
           (
            "k13" :> << "k", "1", "3" >>
            @@
            "k14" :> << "k", "1", "4" >>
           )
          )
         )
        )
       )
      )
     )
     @@
     (
      (
       (
        (
         (
          (
           "k15" :> << "k", "1", "5" >>
           @@
           "k16" :> << "k", "1", "6" >>
          )
          @@
          (
           "k17" :> << "k", "1", "7" >>
           @@
           "k18" :> << "k", "1", "8" >>
          )
         )
         @@
         (
          (
           "k19" :> << "k", "1", "9" >>
           @@
           "k20" :> << "k", "2", "0" >>
          )
          @@
          (
           "k21" :> << "k", "2", "1" >>
           @@
           (
            "" :> <<  >>
            @@
            "fix the issue, handle this, do it right, make it better" :> << "f", "i", "x", " ", "t", "h", "e", " ", "i", "s", "s", "u", "e", ",", " ", "h", "a", "n", "d", "l", "e", " ", "t", "h", "i", "s", ",", " ", "d", "o", " ", "i", "t", " ", "r", "i", "g", "h", "t", ",", " ", "m", "a", "k", "e", " ", "i", "t", " ", "b", "e", "t", "t", "e", "r" >>
           )
          )
         )
        )
        @@
        (
         (
          (
           "@http:a @http:a @http:a @http:a @http:a @http:a @http:a @http:a @http:a @http:a @http:a @http:a @http:a" :> << "@", "h", "t", "t", "p", ":", "a", " ", "@", "h", "t", "t", "p", ":", "a", " ", "@", "h", "t", "t", "p", ":", "a", " ", "@", "h", "t", "t", "p", ":", "a", " ", "@", "h", "t", "t", "p", ":", "a", " ", "@", "h", "t", "t", "p", ":", "a", " ", "@", "h", "t", "t", "p", ":", "a", " ", "@", "h", "t", "t", "p", ":", "a", " ", "@", "h", "t", "t", "p", ":", "a", " ", "@", "h", "t", "t", "p", ":", "a", " ", "@", "h", "t", "t", "p", ":", "a", " ", "@", "h", "t", "t", "p", ":", "a", " ", "@", "h", "t", "t", "p", ":", "a" >>
           @@
           "npm install\ngit status\nnode app" :> << "n", "p", "m", " ", "i", "n", "s", "t", "a", "l", "l", "\n", "g", "i", "t", " ", "s", "t", "a", "t", "u", "s", "\n", "n", "o", "d", "e", " ", "a", "p", "p" >>
          )
          @@
          (
           "it works and it runs and it builds and it ships" :> << "i", "t", " ", "w", "o", "r", "k", "s", " ", "a", "n", "d", " ", "i", "t", " ", "r", "u", "n", "s", " ", "a", "n", "d", " ", "i", "t", " ", "b", "u", "i", "l", "d", "s", " ", "a", "n", "d", " ", "i", "t", " ", "s", "h", "i", "p", "s" >>
           @@
           (
            "format code properly" :> << "f", "o", "r", "m", "a", "t", " ", "c", "o", "d", "e", " ", "p", "r", "o", "p", "e", "r", "l", "y" >>
            @@
            "do it right" :> << "d", "o", " ", "i", "t", " ", "r", "i", "g", "h", "t" >>
           )
          )
         )
         @@
         (
          (
           "make it better" :> << "m", "a", "k", "e", " ", "i", "t", " ", "b", "e", "t", "t", "e", "r" >>
           @@
           "fix the issue" :> << "f", "i", "x", " ", "t", "h", "e", " ", "i", "s", "s", "u", "e" >>
          )
          @@
          (
           "handle this" :> << "h", "a", "n", "d", "l", "e", " ", "t", "h", "i", "s" >>
           @@
           (
            "improve performance" :> << "i", "m", "p", "r", "o", "v", "e", " ", "p", "e", "r", "f", "o", "r", "m", "a", "n", "c", "e" >>
            @@
            "optimize this" :> << "o", "p", "t", "i", "m", "i", "z", "e", " ", "t", "h", "i", "s" >>
           )
          )
         )
        )
       )
       @@
       (
        (
         (
          (
           "this" :> << "t", "h", "i", "s" >>
           @@
           "that" :> << "t", "h", "a", "t" >>
          )
          @@
          (
           "it" :> << "i", "t" >>
           @@
           (
            "they" :> << "t", "h", "e", "y" >>
            @@
            "thing" :> << "t", "h", "i", "n", "g" >>
           )
          )
         )
         @@
         (
          (
           "stuff" :> << "s", "t", "u", "f", "f" >>
           @@
           "something" :> << "s", "o", "m", "e", "t", "h", "i", "n", "g" >>
          )
          @@
          (
           "etc" :> << "e", "t", "c" >>
           @@
           (
            "various" :> << "v", "a", "r", "i", "o", "u", "s" >>
            @@
            "example" :> << "e", "x", "a", "m", "p", "l", "e" >>
           )
          )
         )
        )
        @@
        (
         (
          (
           "e.g." :> << "e", ".", "g", "." >>
           @@
           "why" :> << "w", "h", "y" >>
          )
          @@
          (
           "when" :> << "w", "h", "e", "n" >>
           @@
           (
            "if" :> << "i", "f" >>
            @@
            "how" :> << "h", "o", "w" >>
           )
          )
         )
         @@
         (
          (
           "step" :> << "s", "t", "e", "p" >>
           @@
           "config" :> << "c", "o", "n", "f", "i", "g" >>
          )
          @@
          (
           "function" :> << "f", "u", "n", "c", "t", "i", "o", "n" >>
           @@
           (
            "command" :> << "c", "o", "m", "m", "a", "n", "d" >>
            @@
            "error" :> << "e", "r", "r", "o", "r" >>
           )
          )
         )
        )
       )
      )
      @@
      (
       (
        (
         (
          (
           "build" :> << "b", "u", "i", "l", "d" >>
           @@
           "set" :> << "s", "e", "t" >>
          )
          @@
          (
           "configure" :> << "c", "o", "n", "f", "i", "g", "u", "r", "e" >>
           @@
           "install" :> << "i", "n", "s", "t", "a", "l", "l" >>
          )
         )
         @@
         (
          (
           "update" :> << "u", "p", "d", "a", "t", "e" >>
           @@
           "create" :> << "c", "r", "e", "a", "t", "e" >>
          )
          @@
          (
           "while" :> << "w", "h", "i", "l", "e" >>
           @@
           (
            "during" :> << "d", "u", "r", "i", "n", "g" >>
            @@
            "after" :> << "a", "f", "t", "e", "r" >>
           )
          )
         )
        )
        @@
        (
         (
          (
           "since" :> << "s", "i", "n", "c", "e" >>
           @@
           "due to" :> << "d", "u", "e", " ", "t", "o" >>
          )
          @@
          (
           "reason" :> << "r", "e", "a", "s", "o", "n" >>
           @@
           (
            "purpose" :> << "p", "u", "r", "p", "o", "s", "e" >>
            @@
            "method" :> << "m", "e", "t", "h", "o", "d" >>
           )
          )
         )
         @@
         (
          (
           "way" :> << "w", "a", "y" >>
           @@
           "process" :> << "p", "r", "o", "c", "e", "s", "s" >>
          )
          @@
          (
           "git" :> << "g", "i", "t" >>
           @@
           (
            "node" :> << "n", "o", "d", "e" >>
            @@
            "http://" :> << "h", "t", "t", "p", ":", "/", "/" >>
           )
          )
         )
        )
       )
       @@
       (
        (
         (
          (
           "https://" :> << "h", "t", "t", "p", "s", ":", "/", "/" >>
           @@
           "http:" :> << "h", "t", "t", "p", ":" >>
          )
          @@
          (
           "/r/d.md" :> << "/", "r", "/", "d", ".", "m", "d" >>
           @@
           (
            "/r/e.md" :> << "/", "r", "/", "e", ".", "m", "d" >>
            @@
            "@l.md @r.md" :> << "@", "l", ".", "m", "d", " ", "@", "r", ".", "m", "d" >>
           )
          )
         )
         @@
         (
          (
           "left @e.md" :> << "l", "e", "f", "t", " ", "@", "e", ".", "m", "d" >>
           @@
           "right @e.md" :> << "r", "i", "g", "h", "t", " ", "@", "e", ".", "m", "d" >>
          )
          @@
          (
           "@f.md" :> << "@", "f", ".", "m", "d" >>
           @@
           (
            "to be or not to be" :> << "t", "o", " ", "b", "e", " ", "o", "r", " ", "n", "o", "t", " ", "t", "o", " ", "b", "e" >>
            @@
            "Tests" :> << "T", "e", "s", "t", "s" >>
           )
          )
         )
        )
        @@
        (
         (
          (
           "Deploy" :> << "D", "e", "p", "l", "o", "y" >>
           @@
           "USE" :> << "U", "S", "E" >>
          )
          @@
          (
           "## Build and Development Commands" :> << "#", "#", " ", "B", "u", "i", "l", "d", " ", "a", "n", "d", " ", "D", "e", "v", "e", "l", "o", "p", "m", "e", "n", "t", " ", "C", "o", "m", "m", "a", "n", "d", "s" >>
           @@
           (
            "# Build and Development Commands" :> << "#", " ", "B", "u", "i", "l", "d", " ", "a", "n", "d", " ", "D", "e", "v", "e", "l", "o", "p", "m", "e", "n", "t", " ", "C", "o", "m", "m", "a", "n", "d", "s" >>
            @@
            "## Core Architecture" :> << "#", "#", " ", "C", "o", "r", "e", " ", "A", "r", "c", "h", "i", "t", "e", "c", "t", "u", "r", "e" >>
           )
          )
         )
         @@
         (
          (
           "# Core Architecture" :> << "#", " ", "C", "o", "r", "e", " ", "A", "r", "c", "h", "i", "t", "e", "c", "t", "u", "r", "e" >>
           @@
           "# CLAUDE.md" :> << "#", " ", "C", "L", "A", "U", "D", "E", ".", "m", "d" >>
          )
          @@
          (
           "# CLAUDE.md\n## Core Architecture" :> << "#", " ", "C", "L", "A", "U", "D", "E", ".", "m", "d", "\n", "#", "#", " ", "C", "o", "r", "e", " ", "A", "r", "c", "h", "i", "t", "e", "c", "t", "u", "r", "e" >>
           @@
           (
            "Build and Development Commands" :> << "B", "u", "i", "l", "d", " ", "a", "n", "d", " ", "D", "e", "v", "e", "l", "o", "p", "m", "e", "n", "t", " ", "C", "o", "m", "m", "a", "n", "d", "s" >>
            @@
            "Core Architecture" :> << "C", "o", "r", "e", " ", "A", "r", "c", "h", "i", "t", "e", "c", "t", "u", "r", "e" >>
           )
          )
         )
        )
       )
      )
     )
    )

Chars(s) == CharTable[s]

UpperLetters ==
    << "A", "B", "C", "D", "E", "F", "G", "H", "I", "J", "K", "L", "M",
       "N", "O", "P", "Q", "R", "S", "T", "U", "V", "W", "X", "Y", "Z" >>

LowerLetters ==
    << "a", "b", "c", "d", "e", "f", "g", "h", "i", "j", "k", "l", "m",
       "n", "o", "p", "q", "r", "s", "t", "u", "v", "w", "x", "y", "z" >>

DigitChars == << "0", "1", "2", "3", "4", "5", "6", "7", "8", "9" >>

IsUpper(c) == \E i \in 1..26 : UpperLetters[i] = c

IsLower(c) == \E i \in 1..26 : LowerLetters[i] = c

IsDigit(c) == \E i \in 1..10 : DigitChars[i] = c

\* \w of a JavaScript regular expression: [A-Za-z0-9_]
IsWordChar(c) == IsUpper(c) \/ IsLower(c) \/ IsDigit(c) \/ c = "_"

\* \s of a JavaScript regular expression (the whitespace the model's texts use)
Whitespace == {" ", "\n", "\t", "\r"}

IsSpace(c) == c \in Whitespace

ToLowerChar(c) ==
    IF IsUpper(c) THEN LowerLetters[CHOOSE i \in 1..26 : UpperLetters[i] = c] ELSE c

ToUpperChar(c) ==
    IF IsLower(c) THEN UpperLetters[CHOOSE i \in 1..26 : LowerLetters[i] = c] ELSE c

\* String.prototype.charCodeAt for the characters a keyword can hold
CharCode(c) ==
    IF IsLower(c) THEN 96 + (CHOOSE i \in 1..26 : LowerLetters[i] = c)
    ELSE IF IsUpper(c) THEN 64 + (CHOOSE i \in 1..26 : UpperLetters[i] = c)
    ELSE IF IsDigit(c) THEN 47 + (CHOOSE i \in 1..10 : DigitChars[i] = c)
    ELSE IF c = "_" THEN 95
    ELSE IF c = "." THEN 46
    ELSE IF c = "@" THEN 64
    ELSE IF c = "/" THEN 47
    ELSE IF c = "'" THEN 39
    ELSE 32

\* The string a sequence of characters spells
RECURSIVE Str(_)
Str(cs) ==
    IF Len(cs) = 0 THEN ""
    ELSE IF Len(cs) = 1 THEN cs[1]
    ELSE LET half == Len(cs) \div 2
         IN  Str(SubSeq(cs, 1, half)) \o Str(SubSeq(cs, half + 1, Len(cs)))

\* String.prototype.toLowerCase
LowerCs(cs) == [i \in 1..Len(cs) |-> ToLowerChar(cs[i])]

\* cs[from .. to-1], String.prototype.substring
Slice(cs, from, to) == [i \in 1..(to - from) |-> cs[from + i - 1]]

\* the j-th smallest number of the set S
NthOf(S, j) == CHOOSE x \in S : Cardinality({ y \in S : y < x }) = j - 1

\* split on a pattern [seps]+: the pieces of cs between the maximal runs of
\* characters of seps, the empty pieces before a leading and after a trailing
\* run included
SplitRuns(cs, seps) ==
    LET n == Len(cs)
        starts == { i \in 1..n : cs[i] \in seps /\ (i = 1 \/ cs[i - 1] \notin seps) }
        ends == { i \in 1..n : cs[i] \in seps /\ (i = n \/ cs[i + 1] \notin seps) }
        k == Cardinality(starts)
    IN  [j \in 1..(k + 1) |->
            Slice(cs, IF j = 1 THEN 1 ELSE NthOf(ends, j - 1) + 1,
                      IF j = k + 1 THEN n + 1 ELSE NthOf(starts, j))]

\* split(/\s+/)
SplitWhitespace(cs) == SplitRuns(cs, Whitespace)

\* [...new Set(xs)]: first occurrences, in order
Dedupe(s) ==
    LET first == { i \in 1..Len(s) : \A j \in 1..(i - 1) : s[j] # s[i] }
    IN  [k \in 1..Cardinality(first) |-> s[NthOf(first, k)]]

SeqToSet(s) == { s[i] : i \in 1..Len(s) }

IncludesElem(s, x) == \E i \in 1..Len(s) : s[i] = x

\* String.prototype.includes: needle occurs in hay as a substring
IncludesCs(hay, needle) ==
    \E i \in 1..(Len(hay) - Len(needle) + 1) :
        \A j \in 1..Len(needle) : hay[i + j - 1] = needle[j]

\* the function f as an explicit table: its values are computed once, when
\* the table is built, and not at every application
Tabulate(f) == f @@ << >>

(***************************************************************************)
(* SemanticSearch: keyword and entity extraction                           *)
(***************************************************************************)

\* the stop words of extractKeywords
StopWords ==
    { "the", "and", "but", "for", "are", "with", "his", "they", "this", "have",
      "from", "not", "been", "that", "will", "what", "can", "all" }

\* text.replace(/[^\w\s]/g, ' ')
ReplaceNonWordBySpace(cs) ==
    [i \in 1..Len(cs) |-> IF IsWordChar(cs[i]) \/ IsSpace(cs[i]) THEN cs[i] ELSE " "]

\* words.filter(word => word.length > 2) followed by the stop-word filter
KeepKeywords(ws) ==
    LET kept == { i \in 1..Len(ws) : Len(ws[i]) > 2 /\ Str(ws[i]) \notin StopWords }
    IN  [k \in 1..Cardinality(kept) |-> ws[NthOf(kept, k)]]

\* extractKeywords on the characters of a text: the keywords, as character
\* sequences, in text order (repetitions kept)
extractKeywordsCs(cs) ==
    KeepKeywords(SplitWhitespace(ReplaceNonWordBySpace(LowerCs(cs))))

StrEach(ws) == [i \in 1..Len(ws) |-> Str(ws[i])]

extractKeywords(text) == StrEach(extractKeywordsCs(Chars(text)))

\* word.replace(/[^\w]/g, '')
RemoveNonWord(cs) ==
    LET kept == { i \in 1..Len(cs) : IsWordChar(cs[i]) }
    IN  [k \in 1..Cardinality(kept) |-> cs[NthOf(kept, k)]]

\* the first loop of extractEntities: words whose first character equals its
\* upper case (capitals, and digits and "_" as well) and longer than 2
CapitalizedWords(ws) ==
    LET word == [i \in 1..Len(ws) |-> RemoveNonWord(ws[i])]
        kept == { i \in 1..Len(ws) :
                    Len(word[i]) > 2 /\ word[i][1] = ToUpperChar(word[i][1]) }
    IN  [k \in 1..Cardinality(kept) |-> word[NthOf(kept, k)]]

\* \b before position i: exactly one of cs[i-1], cs[i] is a word character
WordBoundary(cs, i) ==
    LET before == i > 1 /\ i - 1 <= Len(cs) /\ IsWordChar(cs[i - 1])
        after  == i >= 1 /\ i <= Len(cs) /\ IsWordChar(cs[i])
    IN  before # after

\* first position >= i whose character is not of class k
\* (k: 1 = [a-z], 2 = [A-Z], 3 = \w, 4 = \s)
InClass(k, c) ==
    CASE k = 1 -> IsLower(c)
      [] k = 2 -> IsUpper(c)
      [] k = 3 -> IsWordChar(c)
      [] OTHER -> IsSpace(c)

RunEnd(cs, i, k) ==
    LET stops == { j \in i..Len(cs) : ~InClass(k, cs[j]) }
    IN  IF stops = {} THEN IF i > Len(cs) THEN i ELSE Len(cs) + 1
        ELSE NthOf(stops, 1)

\* cs holds the literal lit at position i
LiteralAt(cs, i, lit) ==
    /\ i + Len(lit) - 1 <= Len(cs)
    /\ \A j \in 1..Len(lit) : cs[i + j - 1] = lit[j]

\* The four patterns of extractEntities. MatchAt(p, cs, i) is the position after
\* the match of pattern p that starts at i, or 0 when there is none. Every
\* quantified run is followed by a character outside its class or by \b, so
\* the greedy run is the only one that can match.
\*   1: /\b[A-Z][a-z]+\s+[A-Z][a-z]+\b/   2: /\b[A-Z]{2,}\b/
\*   3: /\b\w+\.com\b/                    4: /\b\w+@\w+\.\w+\b/
Scan(cs) ==
    [ runEnd |-> [k \in 1..4 |-> [i \in 1..(Len(cs) + 2) |-> RunEnd(cs, i, k)]],
      boundary |-> [i \in 1..(Len(cs) + 5) |-> WordBoundary(cs, i)] ]

MatchAt(p, cs, i, sc) ==
    IF ~sc.boundary[i] THEN 0
    ELSE CASE p = 1 ->
                IF ~(i <= Len(cs) /\ IsUpper(cs[i])) THEN 0
                ELSE LET a == sc.runEnd[1][i + 1]
                         b == sc.runEnd[4][a]
                         c == sc.runEnd[1][b + 1]
                     IN  IF /\ a > i + 1
                            /\ b > a
                            /\ b <= Len(cs) /\ IsUpper(cs[b])
                            /\ c > b + 1
                            /\ sc.boundary[c]
                         THEN c ELSE 0
           [] p = 2 ->
                LET a == sc.runEnd[2][i]
                IN  IF a >= i + 2 /\ sc.boundary[a] THEN a ELSE 0
           [] p = 3 ->
                LET a == sc.runEnd[3][i]
                IN  IF /\ a > i
                       /\ LiteralAt(cs, a, << ".", "c", "o", "m" >>)
                       /\ sc.boundary[a + 4]
                    THEN a + 4 ELSE 0
           [] OTHER ->
                LET a == sc.runEnd[3][i]
                    b == sc.runEnd[3][a + 1]
                    c == sc.runEnd[3][b + 1]
                IN  IF /\ a > i
                       /\ a <= Len(cs) /\ cs[a] = "@"
                       /\ b > a + 1
                       /\ b <= Len(cs) /\ cs[b] = "."
                       /\ c > b + 1
                    THEN c ELSE 0

\* text.match(pattern) with the g flag: the matches from left to right, each
\* search resuming where the previous match ended
RECURSIVE MatchAll(_, _, _, _)
MatchAll(p, cs, i, sc) ==
    LET starts == { j \in i..Len(cs) : MatchAt(p, cs, j, sc) > 0 }
    IN  IF starts = {} THEN << >>
        ELSE LET s == NthOf(starts, 1)
                 e == MatchAt(p, cs, s, sc)
             IN  << Slice(cs, s, e) >> \o MatchAll(p, cs, e, sc)

\* extractEntities on the characters of a text
extractEntitiesCs(cs) ==
    LET sc == Scan(cs)
    IN  Dedupe(CapitalizedWords(SplitWhitespace(cs))
               \o MatchAll(1, cs, 1, sc) \o MatchAll(2, cs, 1, sc)
               \o MatchAll(3, cs, 1, sc) \o MatchAll(4, cs, 1, sc))

extractEntities(text) == StrEach(extractEntitiesCs(Chars(text)))

(***************************************************************************)
(* SemanticSearch: the pseudo-embedding                                    *)
(* Numbers of the code are IEEE doubles; the model computes them in fixed  *)
(* point: vector coordinates in 1/VecUnit, scores in 1/ScoreUnit, every    *)
(* division rounding down.                                                 *)
(***************************************************************************)

\* private vectorDimensions = 384
vectorDimensions == 384

\* fixed-point units of the model's arithmetic
WeightUnit == 10000

VecUnit == 1000

ScoreUnit == 10000

\* simpleHash: hash = ((hash << 5) - hash) + char, cut to 32 bits after every
\* character. The 32-bit value is kept as its two 16-bit halves << hi, lo >>
\* of the two's complement representation.
simpleHash(cs) ==
    LET lo[i \in 0..Len(cs)] ==
            IF i = 0 THEN 0 ELSE (lo[i - 1] * 31 + CharCode(cs[i])) % 65536
        hi[i \in 0..Len(cs)] ==
            IF i = 0 THEN 0
            ELSE (hi[i - 1] * 31 + ((lo[i - 1] * 31 + CharCode(cs[i])) \div 65536)) % 65536
    IN  << hi[Len(cs)], lo[Len(cs)] >>

\* Math.abs(hash) % this.vectorDimensions, of a hash given by its halves
HashIndex(h) ==
    LET D == vectorDimensions
    IN  IF h[1] < 32768
        THEN (((h[1] % D) * (65536 % D)) + h[2]) % D
        ELSE ((((65535 - h[1]) % D) * (65536 % D)) + (65536 - h[2])) % D

\* the largest r of lo..hi with r * r <= n, where lo * lo <= n
SqrtBetween(n, lo, hi) ==
    CHOOSE r \in lo..hi : r * r <= n /\ (r = hi \/ (r + 1) * (r + 1) > n)

\* Math.sqrt, rounded down: the largest r with r * r <= n (n < 2^31, so
\* r <= 46340). It is found among the multiples of 216 first.
Sqrt(n) ==
    LET a == CHOOSE k \in 0..214 :
                 (k * 216) * (k * 216) <= n
                 /\ (k = 214 \/ ((k + 1) * 216) * ((k + 1) * 216) > n)
    IN  SqrtBetween(n, a * 216, IF a = 214 THEN 46340 ELSE a * 216 + 215)

RECURSIVE SumSeq(_)
SumSeq(s) ==
    IF Len(s) = 0 THEN 0
    ELSE IF Len(s) = 1 THEN s[1]
    ELSE LET half == Len(s) \div 2
         IN  SumSeq(SubSeq(s, 1, half)) + SumSeq(SubSeq(s, half + 1, Len(s)))

\* new Array(this.vectorDimensions).fill(0) with the loop over the words left
\* out
VectorUnfilled(words) == [ length |-> vectorDimensions, at |-> << >> ]

\* A number[] of the code that is mostly 0 is written as its length and its
\* non-zero coordinates: [length |-> n, at |-> [coordinate |-> value]], the
\* coordinates counted from 0 as in the code.
\* generateSemanticVectors on the keywords of a text: coordinate
\* hash(word_i) mod D gets 1/(i+1) for the keyword at 0-based position i,
\* then the vector is divided by its length unless that is 0.
VectorOfWords(words) ==
    LET D == vectorDimensions
        n == Len(words)
        index == [i \in 1..n |-> HashIndex(simpleHash(words[i]))]
        weight == [i \in 1..n |-> WeightUnit \div i]
        rawAt(k) == SumSeq([i \in 1..n |-> IF index[i] = k THEN weight[i] ELSE 0])
        first == { i \in 1..n : \A j \in 1..(i - 1) : index[j] # index[i] }
        squares == [i \in 1..n |-> IF i \in first THEN rawAt(index[i]) * rawAt(index[i]) ELSE 0]
        magnitude == Sqrt(SumSeq(squares))
        value(k) == IF magnitude > 0 THEN (rawAt(k) * VecUnit) \div magnitude ELSE rawAt(k)
        used == { k \in { index[i] : i \in 1..n } : value(k) # 0 }
    IN  [ length |-> D, at |-> [k \in used |-> value(k)] ]

generateSemanticVectors(text) == VectorOfWords(extractKeywordsCs(Chars(text)))

(***************************************************************************)
(* The texts of the model                                                  *)
(***************************************************************************)

\* The backquote cannot be written in a TLA+ string: the first text writes
\* the two backquotes of the example as apostrophes. Both characters are
\* outside \w, \s and [.!?], the only classes the code tells apart.
TextM1 == "Use 'npm test' to run tests before deploying to production"

TextM2 == "Deployment pipeline failed because of missing environment variable"

TextProto == "__proto__ pollution"

TextQuery == "deploy tests"

\* the contents callers index: two texts that share the keyword "tests"
Contents == { TextM1, TextQuery }

\* the contents of the end-to-end example
ExampleContents == { TextM1, TextM2 }

\* the contents indexed before an export
ExportContents == { TextM1, TextProto }

\* queries callers search for
Queries == { TextQuery, "__proto__", "John Smith uses API" }

\* a text with a keyword that occurs twice
TextTwice == "deploy deploy tests"

\* a text of 21 keywords, each of them three times
TextMany ==
    "k01 k01 k01 k02 k02 k02 k03 k03 k03 k04 k04 k04 k05 k05 k05 k06 k06 k06 k07 k07 k07 k08 k08 k08 k09 k09 k09 k10 k10 k10 k11 k11 k11 k12 k12 k12 k13 k13 k13 k14 k14 k14 k15 k15 k15 k16 k16 k16 k17 k17 k17 k18 k18 k18 k19 k19 k19 k20 k20 k20 k21 k21 k21"

\* the contents indexed before the trending keywords are asked for
TrendContents == { TextQuery, TextTwice, TextMany }

\* the texts callers search for: the queries and the stored contents
SearchQueries == { "John Smith uses API" } \cup Contents

\* the texts that are stored or searched for in a search
SearchTexts == Contents \cup ExampleContents \cup ExportContents \cup Queries

\* a text of stop words and short words: it has no keyword
TextNoKeywords == "to be or not to be"

\* a content with no keyword and a content with two keywords
VectorContents == { TextNoKeywords, TextQuery }

AllTexts == SearchTexts \cup TrendContents \cup VectorContents

\* the ids callers use
Ids == { "m1", "m2" }

\* String.prototype.toLowerCase, per string of the model
LowerTable == Tabulate([s \in DOMAIN CharTable |-> Str(LowerCs(CharTable[s]))])

toLowerCase(s) == LowerTable[s]

\* extraction results per text, computed once
KeywordsOf == Tabulate([t \in AllTexts |-> extractKeywords(t)])

EntitiesOf == Tabulate([t \in AllTexts |-> extractEntities(t)])

VectorsOf == Tabulate([t \in AllTexts |-> generateSemanticVectors(t)])

(***************************************************************************)
(* SemanticSearch: the index                                               *)
(*   memoryIndex          Map<string, MemoryIndex>: the entries in         *)
(*                        insertion order, ids unique                      *)
(*   keywordInvertedIndex Map<string, Set<string>>: key -> ids in          *)
(*                        insertion order                                  *)
(*   entityIndex          the same for entities                            *)
(***************************************************************************)

VARIABLES memoryIndex, keywordInvertedIndex, entityIndex, now, lastCall

\* Map.prototype.has / get / set / delete on the entry store
MapHas(m, id) == \E i \in 1..Len(m) : m[i].id = id

MapGet(m, id) == m[CHOOSE i \in 1..Len(m) : m[i].id = id]

MapSet(m, e) ==
    IF MapHas(m, e.id)
    THEN [i \in 1..Len(m) |-> IF m[i].id = e.id THEN e ELSE m[i]]
    ELSE Append(m, e)

MapDelete(m, id) == LET keep(e) == e.id # id IN SelectSeq(m, keep)

\* Array.prototype.push in the place of Set.prototype.add
SetPush(s, id) == Append(s, id)

\* Set.prototype.add / delete on a posting set
SetAdd(s, id) == IF IncludesElem(s, id) THEN s ELSE Append(s, id)

SetDelete(s, id) == LET keep(x) == x # id IN SelectSeq(s, keep)

EmptyMap == [k \in {} |-> << >>]

\* { ...a, ...b }
Spread(a, b) ==
    [k \in DOMAIN a \cup DOMAIN b |-> IF k \in DOMAIN b THEN b[k] ELSE a[k]]

\* one loop of updateInvertedIndexes: id is added to the posting set of the
\* lower-cased key of every term, the set being created when absent
AddPostings(index, id, terms) ==
    LET keys == { toLowerCase(terms[i]) : i \in 1..Len(terms) }
    IN  [k \in DOMAIN index \cup keys |->
           IF k \in keys
           THEN SetAdd(IF k \in DOMAIN index THEN index[k] ELSE << >>, id)
           ELSE index[k]]

\* the loop without `if (ids.size === 0) index.delete(key)`: a set that
\* becomes empty stays in the map
RemovePostingsUnpruned(index, id, terms) ==
    LET keys == { toLowerCase(terms[i]) : i \in 1..Len(terms) }
        hit == keys \cap DOMAIN index
    IN  [k \in DOMAIN index |->
           IF k \in hit THEN SetDelete(index[k], id) ELSE index[k]]

\* one loop of removeFromInvertedIndexes: id is deleted from the posting set
\* of every term's key, and a set that becomes empty is deleted from the map
RemovePostings(index, id, terms) ==
    LET keys == { toLowerCase(terms[i]) : i \in 1..Len(terms) }
        hit == keys \cap DOMAIN index
        gone == { k \in hit : SetDelete(index[k], id) = << >> }
    IN  [k \in DOMAIN index \ gone |->
           IF k \in hit THEN SetDelete(index[k], id) ELSE index[k]]

\* An index as one value: the three maps of a SemanticSearch instance
IndexOf(m, k, e) == [memoryIndex |-> m, keywordInvertedIndex |-> k, entityIndex |-> e]

EmptyIndex == IndexOf(<< >>, EmptyMap, EmptyMap)

updateInvertedIndexes(idx, id, keywords, entities) ==
    [idx EXCEPT !.keywordInvertedIndex = AddPostings(@, id, keywords),
                !.entityIndex = AddPostings(@, id, entities)]

removeFromInvertedIndexes(idx, id, keywords, entities) ==
    [idx EXCEPT !.keywordInvertedIndex = RemovePostings(@, id, keywords),
                !.entityIndex = RemovePostings(@, id, entities)]

\* indexMemory(id, content, metadata, source) at time t: the index afterwards
indexMemory(idx, id, content, metadata, source, t) ==
    LET keywords == KeywordsOf[content]
        entities == EntitiesOf[content]
        memoryEntry == [ id |-> id, content |-> content, vectors |-> VectorsOf[content],
                         keywords |-> keywords, entities |-> entities,
                         metadata |-> metadata, timestamp |-> t, source |-> source ]
        stored == [idx EXCEPT !.memoryIndex = MapSet(@, memoryEntry)]
    IN  updateInvertedIndexes(stored, id, keywords, entities)

\* updateMemory without the removal of the postings of the old content
updateMemoryKeepingPostings(idx, id, newContent, metadata, t) ==
    LET existingMemory == MapGet(idx.memoryIndex, id)
    IN  indexMemory(idx, id, newContent,
                    Spread(Spread(existingMemory.metadata, metadata),
                           [lastModified |-> t]),
                    existingMemory.source, t)

\* updateMemory(id, newContent, metadata) at time t, for an id that is stored
updateMemory(idx, id, newContent, metadata, t) ==
    LET existingMemory == MapGet(idx.memoryIndex, id)
        removed == removeFromInvertedIndexes(idx, id, existingMemory.keywords,
                                             existingMemory.entities)
    IN  indexMemory(removed, id, newContent,
                    Spread(Spread(existingMemory.metadata, metadata),
                           [lastModified |-> t]),
                    existingMemory.source, t)

\* removeMemory without this.memoryIndex.delete(id)
removeMemoryKeepingEntry(idx, id) ==
    LET memory == MapGet(idx.memoryIndex, id)
    IN  removeFromInvertedIndexes(idx, id, memory.keywords, memory.entities)

\* removeMemory(id), for an id that is stored
removeMemory(idx, id) ==
    LET memory == MapGet(idx.memoryIndex, id)
        removed == removeFromInvertedIndexes(idx, id, memory.keywords, memory.entities)
    IN  [removed EXCEPT !.memoryIndex = MapDelete(@, id)]

\* obj[key] = value on an object created by {}: the key __proto__ is the
\* accessor of Object.prototype, and assigning an array to it replaces the
\* object's prototype instead of creating a property
ObjectAssign(obj, key, value) ==
    IF key = "__proto__" THEN obj ELSE Spread(obj, [k \in { key } |-> value])

\* for (const [key, ids] of map.entries()) obj[key] = Array.from(ids)
RECURSIVE MapToObject(_, _)
MapToObject(map, obj) ==
    IF DOMAIN map = {} THEN obj
    ELSE LET key == CHOOSE k \in DOMAIN map : TRUE
         IN  MapToObject([k \in DOMAIN map \ { key } |-> map[k]],
                         ObjectAssign(obj, key, map[key]))

\* exportIndex() at time t
exportIndex(idx, t) ==
    [ memories |-> idx.memoryIndex,
      keywords |-> MapToObject(idx.keywordInvertedIndex, EmptyMap),
      entities |-> MapToObject(idx.entityIndex, EmptyMap),
      metadata |-> [exported |-> t, version |-> "1.0.0"] ]

\* the three loops of importIndex: Map.set per memory, and per own property
\* of keywords and of entities
RECURSIVE SetAll(_, _)
SetAll(m, memories) ==
    IF memories = << >> THEN m ELSE SetAll(MapSet(m, Head(memories)), Tail(memories))

\* ids.forEach(id => candidateIds.add(id))
RECURSIVE AddAll(_, _)
AddAll(set, ids) ==
    IF ids = << >> THEN set ELSE AddAll(SetAdd(set, Head(ids)), Tail(ids))

\* new Set(ids)
SetOf(ids) == AddAll(<< >>, ids)

\* importIndex(indexData): the index afterwards and the number returned
importIndex(indexData) ==
    [ index |-> IndexOf(SetAll(<< >>, indexData.memories),
                        [k \in DOMAIN indexData.keywords |-> SetOf(indexData.keywords[k])],
                        [k \in DOMAIN indexData.entities |-> SetOf(indexData.entities[k])]),
      returned |-> Len(indexData.memories) ]

(***************************************************************************)
(* SemanticSearch: search                                                  *)
(* Date.now() is the variable now, counted in days.                        *)
(***************************************************************************)

\* 7 * 24 * 60 * 60 * 1000 ms, the age limit of searchScope 'recent'
RecentDays == 7

\* 30 * 24 * 60 * 60 * 1000 ms, the decay time of the recency boost
DecayDays == 30

\* the sum of f[k] over the coordinates k in S
SumOver(f, S) == SumSeq([i \in 1..Cardinality(S) |-> f[NthOf(S, i)]])

Min(a, b) == IF a <= b THEN a ELSE b

Max(a, b) == IF a >= b THEN a ELSE b

\* cosineSimilarity, in 1/VecUnit. The three sums of the loop run over all
\* coordinates; the coordinates that are 0 add nothing to them.
cosineSimilarity(a, b) ==
    IF a.length # b.length THEN 0
    ELSE LET both == DOMAIN a.at \cap DOMAIN b.at
             dotProduct == SumOver([k \in both |-> a.at[k] * b.at[k]], both)
             normA == SumOver([k \in DOMAIN a.at |-> a.at[k] * a.at[k]], DOMAIN a.at)
             normB == SumOver([k \in DOMAIN b.at |-> b.at[k] * b.at[k]], DOMAIN b.at)
         IN  IF normA = 0 \/ normB = 0 THEN 0
             ELSE (dotProduct * VecUnit) \div (Sqrt(normA) * Sqrt(normB))

LowerSet(terms) == { toLowerCase(terms[i]) : i \in 1..Len(terms) }

\* calculateKeywordRelevance: Jaccard similarity, in 1/ScoreUnit
calculateKeywordRelevance(queryKeywords, memoryKeywords) ==
    IF Len(queryKeywords) = 0 \/ Len(memoryKeywords) = 0 THEN 0
    ELSE LET querySet == LowerSet(queryKeywords)
             memorySet == LowerSet(memoryKeywords)
         IN  (Cardinality(querySet \cap memorySet) * ScoreUnit)
                 \div Cardinality(querySet \cup memorySet)

\* calculateEntityRelevance: precision, in 1/ScoreUnit
calculateEntityRelevance(queryEntities, memoryEntities) ==
    IF Len(queryEntities) = 0 \/ Len(memoryEntities) = 0 THEN 0
    ELSE LET querySet == LowerSet(queryEntities)
             memorySet == LowerSet(memoryEntities)
         IN  (Cardinality(querySet \cap memorySet) * ScoreUnit)
                 \div Cardinality(querySet)

\* memory.content.toLowerCase().includes(query.toLowerCase()), per pair of texts
PhraseTable ==
    Tabulate([c \in SearchTexts, q \in SearchTexts |->
                IncludesCs(LowerCs(Chars(c)), LowerCs(Chars(q)))])

\* Math.exp(-age / 30 days) in 1/ScoreUnit, for an age of whole days:
\* exp(-1/30) = 0.96722 to five places, multiplied up day by day
\* a recency score that grows with the age
ExpGrowth(age) == ScoreUnit + 100 * age

RECURSIVE ExpDecay(_)
ExpDecay(age) ==
    IF age <= 0 THEN ScoreUnit
    ELSE (ExpDecay(age - 1) * 96722) \div 100000

HasHighPriority(metadata) ==
    "priority" \in DOMAIN metadata /\ metadata["priority"] = "high"

\* the weighted sum of the five scores
WeightedScore(semanticScore, keywordScore, entityScore, phraseScore, recencyScore) ==
    (semanticScore * 40 + keywordScore * 30 + entityScore * 15
     + phraseScore * 10 + recencyScore * 5) \div 100

\* if (memory.metadata.priority === 'high') finalScore *= 1.2
BoostPriority(weighted, metadata) ==
    IF HasHighPriority(metadata) THEN (weighted * 12) \div 10 ELSE weighted

\* the score before the final Math.min
finalScore(query, queryVectors, queryKeywords, queryEntities, memory, t) ==
    BoostPriority(
        WeightedScore((cosineSimilarity(queryVectors, memory.vectors) * ScoreUnit)
                          \div VecUnit,
                      calculateKeywordRelevance(queryKeywords, memory.keywords),
                      calculateEntityRelevance(queryEntities, memory.entities),
                      IF PhraseTable[memory.content, query] THEN ScoreUnit ELSE 0,
                      ExpDecay(t - memory.timestamp)),
        memory.metadata)

\* calculateRelevanceScore without the final Math.min
calculateRelevanceScoreUnclamped(query, queryVectors, queryKeywords, queryEntities, memory, t) ==
    finalScore(query, queryVectors, queryKeywords, queryEntities, memory, t)

calculateRelevanceScore(query, queryVectors, queryKeywords, queryEntities, memory, t) ==
    Min(finalScore(query, queryVectors, queryKeywords, queryEntities, memory, t),
        ScoreUnit)

\* the loop over the query's terms: the posting set of every term's key is
\* added to the candidate ids
RECURSIVE CollectPostings(_, _, _)
CollectPostings(set, index, terms) ==
    IF terms = << >> THEN set
    ELSE LET key == toLowerCase(Head(terms))
             next == IF key \in DOMAIN index THEN AddAll(set, index[key]) ELSE set
         IN  CollectPostings(next, index, Tail(terms))

\* the two lookup loops of getCandidateMemories: the posting sets of the
\* query's keywords, then those of its entities
MatchedIds(idx, queryKeywords, queryEntities) ==
    CollectPostings(CollectPostings(<< >>, idx.keywordInvertedIndex, queryKeywords),
                    idx.entityIndex, queryEntities)

\* the candidate ids of getCandidateMemories before the filters
CandidateIds(idx, queryKeywords, queryEntities) ==
    LET matched == MatchedIds(idx, queryKeywords, queryEntities)
    IN  IF Len(matched) = 0
        THEN [i \in 1..Len(idx.memoryIndex) |-> idx.memoryIndex[i].id]
        ELSE matched

NoTimeRange == [start |-> -1, end |-> -1]

\* the time range and scope filters of getCandidateMemories
PassesFilters(memory, options, t) ==
    /\ options.timeRange # NoTimeRange =>
          ~(memory.timestamp < options.timeRange.start
            \/ memory.timestamp > options.timeRange.end)
    /\ options.searchScope = "recent" => ~(t - memory.timestamp > RecentDays)
    /\ options.searchScope = "important" =>
          ~(~HasHighPriority(memory.metadata)
            /\ ~("important" \in DOMAIN memory.metadata /\ memory.metadata["important"]))

\* getCandidateMemories with the filters left out when no keyword or entity
\* matched and the whole index is taken
getCandidateMemoriesFallbackUnfiltered(idx, queryKeywords, queryEntities, options, t) ==
    LET candidateIds == CandidateIds(idx, queryKeywords, queryEntities)
        unfiltered == Len(MatchedIds(idx, queryKeywords, queryEntities)) = 0
        keep(id) == /\ MapHas(idx.memoryIndex, id)
                    /\ unfiltered \/ PassesFilters(MapGet(idx.memoryIndex, id), options, t)
        kept == SelectSeq(candidateIds, keep)
    IN  [i \in 1..Len(kept) |-> MapGet(idx.memoryIndex, kept[i])]

getCandidateMemories(idx, queryKeywords, queryEntities, options, t) ==
    LET candidateIds == CandidateIds(idx, queryKeywords, queryEntities)
        keep(id) == /\ MapHas(idx.memoryIndex, id)
                    /\ PassesFilters(MapGet(idx.memoryIndex, id), options, t)
        kept == SelectSeq(candidateIds, keep)
    IN  [i \in 1..Len(kept) |-> MapGet(idx.memoryIndex, kept[i])]

\* String.prototype.trim
RECURSIVE TrimLeft(_)
TrimLeft(cs) == IF cs # << >> /\ IsSpace(Head(cs)) THEN TrimLeft(Tail(cs)) ELSE cs

RECURSIVE TrimRight(_)
TrimRight(cs) ==
    IF cs # << >> /\ IsSpace(cs[Len(cs)]) THEN TrimRight(SubSeq(cs, 1, Len(cs) - 1))
    ELSE cs

\* content.split(/[.!?]+/)
SplitSentences(cs) == SplitRuns(cs, {".", "!", "?"})

\* the loop of generateContext. Every sentence's score is its number of
\* matching words over the same divisor max(queryWords.length, 1), so scores
\* compare as the numbers of matching words do.
RECURSIVE BestSentence(_, _, _, _)
BestSentence(sentences, queryWords, best, bestMatches) ==
    IF sentences = << >> THEN best
    ELSE LET sentence == Head(sentences)
             words == extractKeywordsCs(LowerCs(sentence))
             matches == Cardinality({ i \in 1..Len(words) : IncludesElem(queryWords, words[i]) })
         IN  IF matches > bestMatches
             THEN BestSentence(Tail(sentences), queryWords, sentence, matches)
             ELSE BestSentence(Tail(sentences), queryWords, best, bestMatches)

generateContextCs(content, query) ==
    LET sentences == SplitSentences(content)
        queryWords == extractKeywordsCs(LowerCs(query))
    IN  TrimRight(TrimLeft(BestSentence(sentences, queryWords, sentences[1], 0)))

ContextTable ==
    Tabulate([c \in SearchTexts, q \in SearchTexts |->
                Str(generateContextCs(Chars(c), Chars(q)))])

generateContext(memory, query) == ContextTable[memory.content, query]

\* the options of search when the caller gives none
DefaultOptions ==
    [ maxResults |-> 20, minRelevanceScore |-> ScoreUnit \div 10,
      includeContext |-> TRUE, searchScope |-> "all", timeRange |-> NoTimeRange ]

\* a search that leaves the scored results in the order of the candidates
KeepCandidateOrder(rs) == rs

\* scoredResults.sort((a, b) => b.relevanceScore - a.relevanceScore): a stable
\* sort, highest score first
RECURSIVE SortByScore(_)
SortByScore(rs) ==
    IF rs = << >> THEN << >>
    ELSE LET init == SortByScore(SubSeq(rs, 1, Len(rs) - 1))
             r == rs[Len(rs)]
             before == Cardinality({ i \in 1..Len(init) :
                                       init[i].relevanceScore >= r.relevanceScore })
         IN  SubSeq(init, 1, before) \o << r >> \o SubSeq(init, before + 1, Len(init))

\* scoredResults.slice(0, maxResults)
SliceResults(rs, maxResults) ==
    IF maxResults >= 0 THEN SubSeq(rs, 1, Min(maxResults, Len(rs)))
    ELSE SubSeq(rs, 1, Max(Len(rs) + maxResults, 0))

\* one SearchResult
SearchResult(memory, relevanceScore, query, opts) ==
    Spread([ id |-> memory.id, content |-> memory.content,
             relevanceScore |-> relevanceScore, metadata |-> memory.metadata,
             source |-> memory.source, timestamp |-> memory.timestamp ],
           IF opts.includeContext
           THEN [context |-> generateContext(memory, query)]
           ELSE EmptyMap)

\* the candidates whose score reaches minRelevanceScore, as results in the
\* order of the candidates
scoredResults(candidates, scores, query, opts) ==
    LET passed == { i \in 1..Len(candidates) : scores[i] >= opts.minRelevanceScore }
    IN  [k \in 1..Cardinality(passed) |->
           SearchResult(candidates[NthOf(passed, k)], scores[NthOf(passed, k)],
                        query, opts)]

\* the score of every candidate
ScoreEach(candidates, query, t) ==
    [i \in 1..Len(candidates) |->
       calculateRelevanceScore(query, VectorsOf[query], KeywordsOf[query],
                               EntitiesOf[query], candidates[i], t)]

\* the part of search after getCandidateMemories
searchCandidates(candidates, query, opts, t) ==
    SliceResults(SortByScore(scoredResults(candidates, ScoreEach(candidates, query, t),
                                           query, opts)),
                 opts.maxResults)

\* search(query, options) on an index at time t: the results
search(idx, query, opts, t) ==
    searchCandidates(getCandidateMemories(idx, KeywordsOf[query], EntitiesOf[query],
                                          opts, t),
                     query, opts, t)

\* findSimilar that leaves the memory itself out of its results
findSimilarExcludingSelf(idx, memoryId, options, t) ==
    LET memory == MapGet(idx.memoryIndex, memoryId)
        results == search(idx, memory.content,
                          Spread(DefaultOptions, Spread(options, [searchScope |-> "all"])), t)
        others == { i \in 1..Len(results) : results[i].id # memoryId }
    IN  [j \in 1..Cardinality(others) |-> results[NthOf(others, j)]]

\* findSimilar(memoryId, options) at time t, for an id that is stored: the
\* search for the content of the memory, with searchScope 'all'
findSimilar(idx, memoryId, options, t) ==
    LET memory == MapGet(idx.memoryIndex, memoryId)
    IN  search(idx, memory.content,
               Spread(DefaultOptions, Spread(options, [searchScope |-> "all"])), t)

\* the result of a posting lookup: the entry and its score, no context
LookupResult(memory, relevanceScore) ==
    [ id |-> memory.id, content |-> memory.content, relevanceScore |-> relevanceScore,
      metadata |-> memory.metadata, source |-> memory.source,
      timestamp |-> memory.timestamp ]

\* the ids of memoryIds that are stored, in the order of memoryIds
StoredOf(idx, memoryIds) ==
    LET has(id) == MapHas(idx.memoryIndex, id)
    IN  SelectSeq(memoryIds, has)

\* the lookup loop with index.get(term): the terms are looked up as given
RECURSIVE CollectPostingsAsGiven(_, _, _)
CollectPostingsAsGiven(set, index, terms) ==
    IF terms = << >> THEN set
    ELSE LET key == Head(terms)
             next == IF key \in DOMAIN index THEN AddAll(set, index[key]) ELSE set
         IN  CollectPostingsAsGiven(next, index, Tail(terms))

\* getByKeywords that looks the keywords up as given
getByKeywordsCaseSensitive(idx, keywords) ==
    LET stored == StoredOf(idx, CollectPostingsAsGiven(<< >>, idx.keywordInvertedIndex,
                                                       keywords))
    IN  SortByScore([i \in 1..Len(stored) |->
                       LookupResult(MapGet(idx.memoryIndex, stored[i]),
                                    calculateKeywordRelevance(
                                        keywords,
                                        MapGet(idx.memoryIndex, stored[i]).keywords))])

\* getByKeywords(keywords)
getByKeywords(idx, keywords) ==
    LET stored == StoredOf(idx, CollectPostings(<< >>, idx.keywordInvertedIndex, keywords))
    IN  SortByScore([i \in 1..Len(stored) |->
                       LookupResult(MapGet(idx.memoryIndex, stored[i]),
                                    calculateKeywordRelevance(
                                        keywords,
                                        MapGet(idx.memoryIndex, stored[i]).keywords))])

\* getByEntities(entities)
getByEntities(idx, entities) ==
    LET stored == StoredOf(idx, CollectPostings(<< >>, idx.entityIndex, entities))
    IN  SortByScore([i \in 1..Len(stored) |->
                       LookupResult(MapGet(idx.memoryIndex, stored[i]),
                                    calculateEntityRelevance(
                                        entities,
                                        MapGet(idx.memoryIndex, stored[i]).entities))])

\* getTrendingKeywords(timeWindow = 7 * 24 * 60 * 60 * 1000), in days
DefaultTimeWindow == 7

\* The two loops of getTrendingKeywords without the minimum threshold: one
\* record per key of keywordCounts, in the order the keys were first set,
\* which is the order of the first occurrences over the entries of
\* memoryIndex and the keywords of each. An occurrence is << m, i >>: keyword
\* i of entry m.
KeywordTrends(idx, timeWindow, t) ==
    LET windowStart == t - timeWindow
        memories == idx.memoryIndex
        occurrences == UNION { { << m, i >> : i \in 1..Len(memories[m].keywords) } :
                               m \in 1..Len(memories) }
        keyword(o) == memories[o[1]].keywords[o[2]]
        isRecent(o) == memories[o[1]].timestamp >= windowStart
        Earlier(a, b) == a[1] < b[1] \/ (a[1] = b[1] /\ a[2] < b[2])
        firsts == { o \in occurrences :
                      \A p \in occurrences : Earlier(p, o) => keyword(p) # keyword(o) }
        total(o) == Cardinality({ p \in occurrences : keyword(p) = keyword(o) })
        recent(o) == Cardinality({ p \in occurrences :
                                     keyword(p) = keyword(o) /\ isRecent(p) })
        position(o) == Cardinality({ p \in firsts : Earlier(p, o) }) + 1
    IN  [j \in 1..Cardinality(firsts) |->
           LET o == CHOOSE f \in firsts : position(f) = j
           IN  [ keyword |-> keyword(o), count |-> total(o),
                 trend |-> (recent(o) * ScoreUnit) \div Max(total(o) - recent(o), 1) ]]

\* trending.sort((a, b) => b.trend - a.trend): a stable sort, highest trend
\* first
SortByTrend(rs) ==
    LET position(i) ==
            Cardinality({ j \in 1..Len(rs) :
                            \/ rs[j].trend > rs[i].trend
                            \/ rs[j].trend = rs[i].trend /\ j < i }) + 1
    IN  [k \in 1..Len(rs) |-> rs[CHOOSE i \in 1..Len(rs) : position(i) = k]]

\* getTrendingKeywords that pushes every keyword it has counted
getTrendingKeywordsNoThreshold(idx, timeWindow, t) ==
    SliceResults(SortByTrend(KeywordTrends(idx, timeWindow, t)), 20)

\* getTrendingKeywords(timeWindow) on an index at time t
getTrendingKeywords(idx, timeWindow, t) ==
    LET counted == KeywordTrends(idx, timeWindow, t)
        HasMinimum(r) == r.count >= 3
        trending == SelectSeq(counted, HasMinimum)
    IN  SliceResults(SortByTrend(trending), 20)

(***************************************************************************)
(* ImportResolver: paths (node:path on a POSIX system)                     *)
(***************************************************************************)

\* process.cwd()
Cwd == "/r"

\* isAbsolute
isAbsolute(cs) == cs # << >> /\ cs[1] = "/"

\* the pieces of cs between the occurrences of the character sep
SplitOn(cs, sep) ==
    LET n == Len(cs)
        at == { i \in 1..n : cs[i] = sep }
        k == Cardinality(at)
    IN  [j \in 1..(k + 1) |->
            Slice(cs, IF j = 1 THEN 1 ELSE NthOf(at, j - 1) + 1,
                      IF j = k + 1 THEN n + 1 ELSE NthOf(at, j))]

\* the segments of an absolute path with "", "." and ".." resolved
RECURSIVE NormalizeSegments(_, _)
NormalizeSegments(segs, stack) ==
    IF segs = << >> THEN stack
    ELSE LET s == Head(segs)
         IN  IF s = << >> \/ s = << "." >> THEN NormalizeSegments(Tail(segs), stack)
             ELSE IF s = << ".", "." >>
                  THEN NormalizeSegments(Tail(segs),
                           IF stack = << >> THEN stack
                           ELSE SubSeq(stack, 1, Len(stack) - 1))
                  ELSE NormalizeSegments(Tail(segs), Append(stack, s))

RECURSIVE JoinSegments(_)
JoinSegments(segs) ==
    IF segs = << >> THEN << >> ELSE << "/" >> \o Head(segs) \o JoinSegments(Tail(segs))

NormalizeAbsolute(cs) ==
    LET segs == NormalizeSegments(SplitOn(cs, "/"), << >>)
    IN  IF segs = << >> THEN << "/" >> ELSE JoinSegments(segs)

\* resolve(from, to): to when it is absolute, else from/to, from itself taken
\* relative to the working directory; normalized
resolve2(from, to) ==
    IF isAbsolute(to) THEN NormalizeAbsolute(to)
    ELSE IF isAbsolute(from) THEN NormalizeAbsolute(from \o << "/" >> \o to)
         ELSE NormalizeAbsolute(Chars(Cwd) \o << "/" >> \o from \o << "/" >> \o to)

\* resolve(path)
resolve(cs) == resolve2(<< >>, cs)

\* lastIndexOf(c), 1-based; 0 when c does not occur
LastIndexOf(cs, c) ==
    LET at == { i \in 1..Len(cs) : cs[i] = c }
    IN  IF at = {} THEN 0 ELSE CHOOSE i \in at : \A j \in at : j <= i

\* dirname, for a path without trailing slashes
dirname(cs) ==
    LET slash == LastIndexOf(cs, "/")
    IN  IF slash = 0 THEN << "." >>
        ELSE IF slash = 1 THEN << "/" >>
             ELSE SubSeq(cs, 1, slash - 1)

(***************************************************************************)
(* ImportResolver: the files                                               *)
(***************************************************************************)

\* a file of the model: what readFile yields, and whether it can be read (a
\* file that exists and cannot be read passes fs.access and fails readFile)
File(content, readable) == [content |-> content, readable |-> readable]

\* A imports B and B imports A
FilesCycle ==
    [ p \in { "/r/a.md", "/r/b.md" } |->
        IF p = "/r/a.md" THEN File("intro @b.md", TRUE)
        ELSE File("back to @a.md", TRUE) ]

\* a chain: every file imports only the next one
FilesChain ==
    [ p \in { "/r/c1.md", "/r/c2.md", "/r/c3.md", "/r/c4.md" } |->
        CASE p = "/r/c1.md" -> File("@c2.md", TRUE)
          [] p = "/r/c2.md" -> File("@c3.md", TRUE)
          [] p = "/r/c3.md" -> File("@c4.md", TRUE)
          [] OTHER -> File("end", TRUE) ]

\* a parent whose imports are, in declaration order: a good file with an
\* import of its own, a missing file, a file with a disallowed extension, the
\* parent itself, a file that cannot be read, a good file, and a URL
FilesSiblings ==
    [ p \in { "/r/p.md", "/r/s1.md", "/r/leaf.md", "/r/x.exe", "/r/locked.md",
              "/r/s2.md" } |->
        CASE p = "/r/p.md" ->
               File("@s1.md @gone.md @x.exe @./p.md @locked.md @/r/s2.md @http://h/y.md", TRUE)
          [] p = "/r/s1.md" -> File("one @leaf.md", TRUE)
          [] p = "/r/leaf.md" -> File("leaf", TRUE)
          [] p = "/r/x.exe" -> File("binary", TRUE)
          [] p = "/r/locked.md" -> File("secret", FALSE)
          [] OTHER -> File("two", TRUE) ]

\* a diamond: the two imports of the top file both import the same file,
\* which has an import of its own
FilesDiamond ==
    [ p \in { "/r/d.md", "/r/l.md", "/r/r.md", "/r/e.md", "/r/f.md" } |->
        CASE p = "/r/d.md" -> File("@l.md @r.md", TRUE)
          [] p = "/r/l.md" -> File("left @e.md", TRUE)
          [] p = "/r/r.md" -> File("right @e.md", TRUE)
          [] p = "/r/e.md" -> File("@f.md", TRUE)
          [] OTHER -> File("end", TRUE) ]

\* the file systems of the model and the paths callers resolve in each
Scenarios ==
    { [ files |-> FilesCycle, roots |-> { "/r/a.md", "b.md" } ],
      [ files |-> FilesChain,
        roots |-> { "/r/c1.md", "/r/c2.md", "/r/c3.md", "/r/c4.md" } ],
      [ files |-> FilesSiblings,
        roots |-> { "/r/p.md", "/r/s1.md", "/r/locked.md", "/r/none.md" } ],
      [ files |-> FilesDiamond, roots |-> { "/r/d.md", "/r/e.md" } ] }

\* allowedExtensions of resolveImports
DefaultAllowedExtensions == { ".md", ".txt", ".yaml", ".yml", ".json" }

(***************************************************************************)
(* ImportResolver                                                          *)
(*   importCache  Map<string, ImportedContent>                             *)
(*   importGraph  Map<string, Set<string>>                                 *)
(*   fileSystem   the files on disk                                        *)
(*   lastResolve  what the last resolveImports call did: its arguments,    *)
(*                whether it rejected, its result, its log lines, the      *)
(*                files it read and the import loops it ran                *)
(***************************************************************************)

VARIABLES importCache, importGraph, fileSystem, lastResolve

\* extractImports: the captures of /@([^\s\n\r]+)/g that do not start with http
RECURSIVE extractImportsFrom(_, _)
extractImportsFrom(cs, from) ==
    LET ats == { j \in from..Len(cs) : cs[j] = "@" }
    IN  IF ats = {} THEN << >>
        ELSE LET i == NthOf(ats, 1)
                 e == CHOOSE j \in (i + 1)..(Len(cs) + 1) :
                          /\ j = Len(cs) + 1 \/ IsSpace(cs[j])
                          /\ \A k \in (i + 1)..(j - 1) : ~IsSpace(cs[k])
                 importPath == Slice(cs, i + 1, e)
             IN  IF e = i + 1 THEN extractImportsFrom(cs, i + 1)
                 ELSE IF Len(importPath) >= 4 /\ SubSeq(importPath, 1, 4) = << "h", "t", "t", "p" >>
                      THEN extractImportsFrom(cs, e)
                      ELSE << importPath >> \o extractImportsFrom(cs, e)

extractImports(cs) == extractImportsFrom(cs, 1)

\* resolveImportPath
resolveImportPath(importPath, basePath) ==
    IF isAbsolute(importPath) THEN importPath ELSE resolve2(basePath, importPath)

\* isAllowedExtension that lets every extension pass
isAllowedExtensionAny(filePath, allowedExtensions) == TRUE

\* isAllowedExtension
isAllowedExtension(filePath, allowedExtensions) ==
    LET lower == LowerCs(filePath)
        dot == LastIndexOf(lower, ".")
        ext == IF dot = 0 THEN lower ELSE SubSeq(lower, dot, Len(lower))
    IN  Str(ext) \in allowedExtensions

\* a log line
Log(level, what, path) == [level |-> level, what |-> what, path |-> path]

\* the depth check with >= in place of >
DepthExceededAtLimit(currentDepth, maxDepth) == currentDepth >= maxDepth

\* if (currentDepth > options.maxDepth)
DepthExceeded(currentDepth, maxDepth) == currentDepth > maxDepth

\* fs.access(path) resolves
Accessible(fs, path) == path \in DOMAIN fs

\* fs.readFile(path) resolves
Readable(fs, path) == path \in DOMAIN fs /\ fs[path].readable

\* a resolver that never finds a path in its cache
NeverCached(cache, path) == FALSE

\* const cached = this.importCache.get(normalizedPath); if (cached)
Cached(cache, path) == path \in DOMAIN cache

\* a resolver that does not keep what it read
CacheSetDropped(cache, path, importedContent) == cache

\* this.importCache.set(normalizedPath, importedContent)
CacheSet(cache, path, importedContent) ==
    Spread(cache, [k \in { path } |-> importedContent])

\* one visited set shared by every branch of a call: it holds every path the
\* call has gone into so far
VisitedShared(visitedIn, r) == visitedIn \cup SeqToSet(r.reads)

\* new Set(visited): every branch gets its own copy, so the set a call is
\* entered with holds the paths of the calls it is nested in
VisitedOnEntry(visitedIn, r) == visitedIn

\* the imports of every file content of the model, computed once
ImportsOf ==
    Tabulate([ content \in UNION { { s.files[p].content : p \in DOMAIN s.files }
                                   : s \in Scenarios }
                 |-> extractImports(Chars(content)) ])

\* resolveRecursive threads the resolver through the recursion:
\*   r.cache, r.graph  importCache and importGraph
\*   r.log             the lines logged so far
\*   r.reads           the paths handed to readFile so far
\*   r.loops           the import loops finished so far
\* and yields [threw, results, r].
RECURSIVE resolveRecursive(_, _, _, _, _, _)
RECURSIVE ProcessImports(_, _, _, _, _, _, _, _)

\* a catch block that throws the failure of the import on
CatchImportFailureRethrow(acc, r, importPath) ==
    [acc EXCEPT !.r = [r EXCEPT !.log = Append(@, Log("warn", "Failed to resolve import",
                                                      Str(importPath)))],
                !.threw = TRUE]

\* what the catch block of the loop does with a failure of import importPath
CatchImportFailure(acc, r, importPath) ==
    [acc EXCEPT !.r = [r EXCEPT !.log = Append(@, Log("warn", "Failed to resolve import",
                                                      Str(importPath)))],
                !.done = Append(@, << >>)]

\* The for loop over imports, from import i on. acc.done holds the result of
\* every import before i (nestedResults, or << >> when the import was
\* skipped); acc.threw says that an exception left the loop.
ProcessImports(fs, imports, i, normalizedPath, options, currentDepth, visited, acc) ==
    IF i > Len(imports) \/ acc.threw THEN acc
    ELSE LET importPath == imports[i]
             basePath == IF options.basePath # << >> THEN options.basePath
                         ELSE dirname(normalizedPath)
             resolvedPath == resolveImportPath(importPath, basePath)
             nested == resolveRecursive(fs, resolvedPath, options, currentDepth + 1,
                                        visited, acc.r)
             next ==
               IF ~isAllowedExtension(resolvedPath, options.allowedExtensions)
               THEN [acc EXCEPT
                       !.r.log = Append(@, Log("warn", "Skipping file with disallowed extension",
                                               Str(resolvedPath))),
                       !.done = Append(@, << >>)]
               ELSE IF ~Accessible(fs, Str(resolvedPath))
                    THEN CatchImportFailure(acc, acc.r, importPath)
                    ELSE IF nested.threw
                         THEN CatchImportFailure(acc, nested.r, importPath)
                         ELSE [acc EXCEPT !.r = nested.r,
                                          !.done = Append(@, nested.results)]
         IN  ProcessImports(fs, imports, i + 1, normalizedPath, options, currentDepth,
                            visited, next)

\* the results of the imports pushed in the order opposite to the loop's
RECURSIVE FlattenLastFirst(_)
FlattenLastFirst(ss) ==
    IF ss = << >> THEN << >> ELSE FlattenLastFirst(Tail(ss)) \o Head(ss)

\* results.push(...nestedResults), import after import
RECURSIVE Flatten(_)
Flatten(ss) == IF ss = << >> THEN << >> ELSE Head(ss) \o Flatten(Tail(ss))

PathsOf(results) == [i \in 1..Len(results) |-> results[i].path]

resolveRecursive(fs, filePath, options, currentDepth, visitedIn, r) ==
    LET normalizedPath == resolve(filePath)
        path == Str(normalizedPath)
        visited == visitedIn \cup { path }
        failed(r2) == [ threw |-> TRUE, results |-> << >>,
                        r |-> [r2 EXCEPT !.log = Append(@, Log("error",
                                            "Failed to process file", Str(filePath)))] ]
    IN  IF DepthExceeded(currentDepth, options.maxDepth)
        THEN [ threw |-> FALSE, results |-> << >>,
               r |-> [r EXCEPT !.log = Append(@, Log("warn", "Max depth reached",
                                                     Str(filePath)))] ]
        ELSE IF path \in VisitedOnEntry(visitedIn, r)
        THEN [ threw |-> FALSE, results |-> << >>,
               r |-> [r EXCEPT !.log = Append(@, Log("warn", "Circular import detected",
                                                     path))] ]
        ELSE IF Cached(r.cache, path)
        THEN [ threw |-> FALSE, results |-> << r.cache[path] >>, r |-> r ]
        ELSE IF ~Readable(fs, path)
        THEN failed([r EXCEPT !.reads = Append(@, path)])
        ELSE LET content == fs[path].content
                 importedContent == [ path |-> path, content |-> content,
                                      depth |-> currentDepth, timestamp |-> options.now ]
                 imports == ImportsOf[content]
                 r1 == [r EXCEPT !.reads = Append(@, path),
                                 !.cache = CacheSet(@, path, importedContent),
                                 !.graph = IF Len(imports) > 0
                                           THEN Spread(@, [k \in { path } |->
                                                             StrEach(Dedupe(imports))])
                                           ELSE @]
                 loop == ProcessImports(fs, imports, 1, normalizedPath, options,
                                        currentDepth, visited,
                                        [r |-> r1, done |-> << >>, threw |-> FALSE])
             IN  IF loop.threw THEN failed(loop.r)
                 ELSE [ threw |-> FALSE,
                        results |-> << importedContent >> \o Flatten(loop.done),
                        r |-> [loop.r EXCEPT !.loops =
                                 Append(@, [ path |-> path, depth |-> currentDepth,
                                             visited |-> visited,
                                             imports |-> imports,
                                             nested |-> [i \in 1..Len(loop.done) |->
                                                           PathsOf(loop.done[i])] ])] ]

\* getDependencies(filePath)
getDependencies(graph, filePath) ==
    IF filePath \in DOMAIN graph THEN graph[filePath] ELSE << >>

\* resolveImports(filePath, { maxDepth }) at time t on a resolver with cache
\* and graph as given: [threw, results, r]
resolveImports(fs, cache, graph, filePath, maxDepth, t) ==
    LET opts == [ maxDepth |-> maxDepth, allowedExtensions |-> DefaultAllowedExtensions,
                  followSymlinks |-> FALSE, basePath |-> dirname(Chars(filePath)),
                  now |-> t ]
    IN  resolveRecursive(fs, Chars(filePath), opts, 0, {},
                         [ cache |-> cache, graph |-> graph, log |-> << >>,
                           reads |-> << >>, loops |-> << >> ])

(***************************************************************************)
(* MemoryLinter                                                            *)
(* A rule is [id, severity, enabled]; rules is the Map of the rules in     *)
(* insertion order. An issue is [ruleId, severity]. The metrics and the    *)
(* score are in 1/ScoreUnit. A backtick of a text is written as an         *)
(* apostrophe.                                                             *)
(***************************************************************************)

Backtick == "'"

\* A rule is an object: obj names the object a caller made and handed to
\* addRule ("own" is an object initializeDefaultRules made), and throws says
\* that reading the rule when it is applied throws.
Rule(id, severity) ==
    [ id |-> id, severity |-> severity, enabled |-> TRUE, throws |-> FALSE,
      obj |-> "own" ]

\* initializeDefaultRules
DefaultRules ==
    << Rule("specificity-check", "warning"), Rule("length-check", "info"),
       Rule("clarity-check", "warning"), Rule("import-syntax", "error"),
       Rule("duplicate-content", "warning"), Rule("command-format", "info"),
       Rule("context-completeness", "warning") >>

Issue(ruleId, severity) == [ ruleId |-> ruleId, severity |-> severity ]

\* content.toLowerCase().includes(s)
LowerIncludes(cs, s) == IncludesCs(LowerCs(cs), Chars(s))

\* the words of ws the content holds, in the order of ws
FoundIn(cs, ws) ==
    LET Found(w) == LowerIncludes(cs, w)
    IN  SelectSeq(ws, Found)

\* String.prototype.trim
Trim(cs) ==
    LET inked == { i \in 1..Len(cs) : ~IsSpace(cs[i]) }
    IN  IF inked = {} THEN << >>
        ELSE Slice(cs, NthOf(inked, 1), NthOf(inked, Cardinality(inked)) + 1)

\* [].concat(...ss): the elements of the sequences of ss, in order
Concat(ss) ==
    LET all == UNION { { << i, j >> : j \in 1..Len(ss[i]) } : i \in 1..Len(ss) }
        before(o) == Cardinality({ p \in all :
                                     p[1] < o[1] \/ (p[1] = o[1] /\ p[2] < o[2]) })
    IN  [k \in 1..Cardinality(all) |->
           LET o == CHOOSE p \in all : before(p) = k - 1 IN ss[o[1]][o[2]]]

checkSpecificity(cs, rule) ==
    LET vaguePhrases == << "format code properly", "do it right", "make it better",
                           "fix the issue", "handle this", "improve performance",
                           "optimize this" >>
        found == FoundIn(cs, vaguePhrases)
    IN  [i \in 1..Len(found) |-> Issue(rule.id, rule.severity)]

checkLength(cs, rule) ==
    IF Len(cs) < 10 THEN << Issue(rule.id, "warning") >>
    ELSE IF Len(cs) > 1000 THEN << Issue(rule.id, rule.severity) >>
    ELSE << >>

\* content.match(new RegExp('\\b' + word + '\\b', 'gi')): the number of matches
CountWord(cs, word) ==
    LET w == Chars(word)
        low == LowerCs(cs)
    IN  Cardinality({ i \in 1..(Len(cs) - Len(w) + 1) :
                        /\ \A j \in 1..Len(w) : low[i + j - 1] = w[j]
                        /\ WordBoundary(cs, i)
                        /\ WordBoundary(cs, i + Len(w)) })

checkClarity(cs, rule) ==
    LET sentences == SplitSentences(cs)
        IsLong(sentence) == Len(Trim(sentence)) > 150
        long == SelectSeq(sentences, IsLong)
        unclearPronouns == << "this", "that", "it", "they" >>
        IsFrequent(pronoun) == CountWord(cs, pronoun) > 3
        frequent == SelectSeq(unclearPronouns, IsFrequent)
    IN  [i \in 1..Len(long) |-> Issue(rule.id, rule.severity)]
        \o [i \in 1..Len(frequent) |-> Issue(rule.id, "info")]

\* the captures of /@([^\s\n\r]+)/g from left to right: in a run of
\* characters that are not whitespace the match starts at the first "@" that
\* is not the last character of the run and takes the rest of the run
ImportCaptures(cs) ==
    LET n == Len(cs)
        ats == { i \in 1..(n - 1) : cs[i] = "@" /\ ~IsSpace(cs[i + 1]) }
        starts == { i \in ats :
                      \A j \in ats : j < i => \E k \in j..i : IsSpace(cs[k]) }
        stop(i) == IF \E k \in i..n : IsSpace(cs[k])
                   THEN NthOf({ k \in i..n : IsSpace(cs[k]) }, 1)
                   ELSE n + 1
    IN  [k \in 1..Cardinality(starts) |->
           Slice(cs, NthOf(starts, k) + 1, stop(NthOf(starts, k)))]

StartsWith(cs, prefix) ==
    Len(cs) >= Len(prefix) /\ SubSeq(cs, 1, Len(prefix)) = prefix

checkImportSyntax(cs, rule) ==
    LET captures == ImportCaptures(cs)
        issuesOf(importPath) ==
            (IF IncludesElem(importPath, " ")
             THEN << Issue(rule.id, rule.severity) >> ELSE << >>)
            \o (IF IncludesElem(importPath, "\\")
                THEN << Issue(rule.id, rule.severity) >> ELSE << >>)
            \o (IF StartsWith(importPath, Chars("http:"))
                THEN << Issue(rule.id, rule.severity) >> ELSE << >>)
    IN  Concat([k \in 1..Len(captures) |-> issuesOf(captures[k])])

\* the phrases of three consecutive words are compared word by word: no word
\* holds a blank, so two phrases are equal exactly if their words are
checkDuplicateContent(cs, rule) ==
    LET words == SplitWhitespace(LowerCs(cs))
        at == 1..(Len(words) - 2)
        phrase(i) == << words[i], words[i + 1], words[i + 2] >>
        length(i) == Len(words[i]) + Len(words[i + 1]) + Len(words[i + 2]) + 2
        count(i) == Cardinality({ j \in at : phrase(j) = phrase(i) })
        repeated == { i \in at : /\ \A j \in at : j < i => phrase(j) # phrase(i)
                                 /\ count(i) > 2
                                 /\ length(i) > 10 }
    IN  [k \in 1..Cardinality(repeated) |-> Issue(rule.id, rule.severity)]

\* commandPattern.test(line) of the pattern /^[a-z]+\s+[a-z]+/gm whose
\* lastIndex is given: the lastIndex afterwards, which is 0 when the test
\* fails and the end of the match when it succeeds
TestCommandPattern(line, lastIndex) ==
    LET end(p) == LET a == RunEnd(line, p, 1)
                      b == RunEnd(line, a, 4)
                      c == RunEnd(line, b, 1)
                  IN  IF a > p /\ b > a /\ c > b THEN c - 1 ELSE 0
        from == { p \in (lastIndex + 1)..Len(line) :
                    /\ p = 1 \/ line[p - 1] \in { "\n", "\r" }
                    /\ end(p) > 0 }
    IN  IF from = {} THEN 0 ELSE end(NthOf(from, 1))

\* the loop of checkCommandFormat from line i on
RECURSIVE CommandIssues(_, _, _, _)
CommandIssues(lines, i, lastIndex, rule) ==
    IF i > Len(lines) THEN << >>
    ELSE LET line == Trim(lines[i])
             after == TestCommandPattern(line, lastIndex)
             hit == /\ after > 0
                    /\ ~IncludesElem(line, Backtick)
                    /\ ~StartsWith(line, << Backtick, Backtick, Backtick >>)
                    /\ \E word \in { "npm", "git", "node" } :
                          IncludesCs(line, Chars(word))
         IN  (IF hit THEN << Issue(rule.id, rule.severity) >> ELSE << >>)
             \o CommandIssues(lines, i + 1, after, rule)

checkCommandFormat(cs, rule) == CommandIssues(SplitOn(cs, "\n"), 1, 0, rule)

checkContextCompleteness(cs, rule) ==
    LET hasWhen == FoundIn(cs, << "when", "if", "while", "during", "after", "before" >>) # << >>
        hasWhy == FoundIn(cs, << "because", "since", "due to", "reason", "purpose" >>) # << >>
        hasHow == FoundIn(cs, << "how", "method", "way", "process", "step" >>) # << >>
    IN  IF ~hasWhen /\ ~hasWhy /\ ~hasHow /\ Len(cs) > 50
        THEN << Issue(rule.id, rule.severity) >>
        ELSE << >>

\* applyRule: the switch on rule.id; a rule with another id finds nothing
applyRule(rule, cs) ==
    CASE rule.id = "specificity-check" -> checkSpecificity(cs, rule)
      [] rule.id = "length-check" -> checkLength(cs, rule)
      [] rule.id = "clarity-check" -> checkClarity(cs, rule)
      [] rule.id = "import-syntax" -> checkImportSyntax(cs, rule)
      [] rule.id = "duplicate-content" -> checkDuplicateContent(cs, rule)
      [] rule.id = "command-format" -> checkCommandFormat(cs, rule)
      [] rule.id = "context-completeness" -> checkContextCompleteness(cs, rule)
      [] OTHER -> << >>

\* Math.max(0, Math.min(1, score)) in 1/ScoreUnit
ClampUnit(score) == Max(0, Min(ScoreUnit, score))

\* /open[^open]+open/.test(content)
HasQuoted(cs, mark) ==
    \E i \in 1..(Len(cs) - 2) :
        /\ cs[i] = mark
        /\ cs[i + 1] # mark
        /\ \E j \in (i + 2)..Len(cs) : cs[j] = mark

\* /\.[a-z]{2,4}\b/i.test(content)
HasFileExtension(cs) ==
    \E i \in 1..Len(cs) : \E k \in 2..4 :
        /\ cs[i] = "."
        /\ i + k <= Len(cs)
        /\ \A j \in 1..k : IsLower(ToLowerChar(cs[i + j]))
        /\ WordBoundary(cs, i + k + 1)

measureSpecificity(cs) ==
    LET vagueWords == << "thing", "stuff", "something", "etc", "various" >>
        bonus == (IF \E i \in 1..Len(cs) : IsDigit(cs[i]) THEN 1 ELSE 0)
                 + (IF HasQuoted(cs, Backtick) THEN 1 ELSE 0)
                 + (IF IncludesCs(cs, Chars("http://")) \/ IncludesCs(cs, Chars("https://"))
                    THEN 1 ELSE 0)
                 + (IF HasFileExtension(cs) THEN 1 ELSE 0)
                 + (IF HasQuoted(cs, "\"") THEN 1 ELSE 0)
    IN  ClampUnit(ScoreUnit \div 2 + bonus * (ScoreUnit \div 10)
                  - Len(FoundIn(cs, vagueWords)) * (ScoreUnit \div 20))

\* content.match(/\b\w{10,}\b/g): the number of runs of word characters that
\* are at least 10 long
CountComplexWords(cs) ==
    Cardinality({ i \in 1..Len(cs) :
                    /\ IsWordChar(cs[i])
                    /\ i = 1 \/ ~IsWordChar(cs[i - 1])
                    /\ RunEnd(cs, i, 3) - i >= 10 })

measureClarity(cs) ==
    LET sentences == SplitSentences(cs)
        total == SumSeq([i \in 1..Len(sentences) |-> Len(sentences[i])])
        lengthPart == IF total < 50 * Len(sentences) THEN ScoreUnit \div 5
                      ELSE IF total > 100 * Len(sentences) THEN 0 - ScoreUnit \div 5
                      ELSE 0
        complexPart == IF 10 * CountComplexWords(cs) > Len(SplitWhitespace(cs))
                       THEN ScoreUnit \div 10 ELSE 0
    IN  ClampUnit((ScoreUnit * 7) \div 10 + lengthPart - complexPart)

\* content.includes(a) || content.includes(b)
IncludesAny(cs, a, b) == IncludesCs(cs, Chars(a)) \/ IncludesCs(cs, Chars(b))

measureCompleteness(cs) ==
    LET lengthBonus == Min(ScoreUnit \div 10, (Len(cs) * ScoreUnit) \div 2000)
    IN  ClampUnit(ScoreUnit \div 2
                  + (IF IncludesAny(cs, "example", "e.g.") THEN ScoreUnit \div 5 ELSE 0)
                  + (IF IncludesAny(cs, "because", "why") THEN ScoreUnit \div 10 ELSE 0)
                  + (IF IncludesAny(cs, "when", "if") THEN ScoreUnit \div 10 ELSE 0)
                  + (IF IncludesAny(cs, "how", "step") THEN ScoreUnit \div 10 ELSE 0)
                  + lengthBonus)

measureRelevance(cs) ==
    LET techTerms == << "config", "api", "function", "command", "error", "test",
                        "build", "deploy" >>
        actionWords == << "use", "run", "set", "configure", "install", "update",
                          "create" >>
    IN  ClampUnit((ScoreUnit * 6) \div 10
                  + Len(FoundIn(cs, techTerms)) * ((ScoreUnit * 5) \div 100)
                  + Len(FoundIn(cs, actionWords)) * ((ScoreUnit * 3) \div 100))

\* the contents that are linted
LintEmpty == ""

LintVague == "fix the issue, handle this, do it right, make it better"

LintImports ==
    "@http:a @http:a @http:a @http:a @http:a @http:a @http:a @http:a @http:a @http:a @http:a @http:a @http:a"

LintCommands == "npm install\ngit status\nnode app"

LintPronouns == "it works and it runs and it builds and it ships"

\* a CLAUDE.md with its header and one of the two recommended sections
LintClaude == "# CLAUDE.md\n## Core Architecture"

LintContents ==
    { LintEmpty, LintVague, LintImports, LintCommands, LintPronouns, TextM1, LintClaude }

Severities == { "error", "warning", "info" }

\* the ids of the default rules and of a rule a caller adds
RuleIds == { DefaultRules[i].id : i \in 1..Len(DefaultRules) } \cup { "custom-rule" }

\* calculateQualityMetrics(content).overall
OverallQuality(cs) ==
    (measureSpecificity(cs) + measureClarity(cs) + measureCompleteness(cs)
     + measureRelevance(cs)) \div 4

OverallTable == Tabulate([c \in LintContents |-> OverallQuality(Chars(c))])

IssuesTable ==
    Tabulate([c \in LintContents, id \in RuleIds, severity \in Severities |->
                applyRule(Rule(id, severity), Chars(c))])

\* the points the issues cost
Deduction(issue) ==
    CASE issue.severity = "error" -> 10
      [] issue.severity = "warning" -> 5
      [] issue.severity = "info" -> 1
      [] OTHER -> 0

\* calculateQualityScore without the Math.max and Math.min of its last line
calculateQualityScoreUnclamped(content, issues) ==
    100 * ScoreUnit
    - SumSeq([i \in 1..Len(issues) |-> Deduction(issues[i]) * ScoreUnit])
    + OverallTable[content] * 20

calculateQualityScore(content, issues) ==
    LET score == 100 * ScoreUnit
                 - SumSeq([i \in 1..Len(issues) |-> Deduction(issues[i]) * ScoreUnit])
        bonusScore == OverallTable[content] * 20
    IN  Max(0, Min(100 * ScoreUnit, score + bonusScore))

\* the severities of issues that are counted in the summary
CountSeverity(issues, severity) ==
    Cardinality({ i \in 1..Len(issues) : issues[i].severity = severity })

\* a linter that runs the rules that are switched off as well
EnabledAlways(rule) == TRUE

\* if (rule.enabled)
Enabled(rule) == rule.enabled

\* the LintResult of the issues
LintResult(content, issues) ==
    [ threw |-> FALSE, issues |-> issues,
      score |-> calculateQualityScore(content, issues),
      summary |-> [ errors |-> CountSeverity(issues, "error"),
                    warnings |-> CountSeverity(issues, "warning"),
                    infos |-> CountSeverity(issues, "info") ] ]

\* a lintMemory that was left by an exception: the promise rejects and there
\* is no LintResult
LintRejected ==
    [ threw |-> TRUE, issues |-> << >>, score |-> 0,
      summary |-> [ errors |-> 0, warnings |-> 0, infos |-> 0 ] ]

\* the issues of the rules given that are enabled, rule after rule
IssuesOf(rules, content) ==
    Concat([i \in 1..Len(rules) |->
              IF Enabled(rules[i])
              THEN IssuesTable[content, rules[i].id, rules[i].severity]
              ELSE << >>])

\* lintMemory(content) under the rules given. The loop has no try: an
\* exception of applyRule leaves lintMemory.
lintMemory(rules, content) ==
    IF \E i \in 1..Len(rules) : Enabled(rules[i]) /\ rules[i].throws
    THEN LintRejected
    ELSE LintResult(content, IssuesOf(rules, content))

\* applyClaudeFileRules: a warning for each recommended section the content
\* lacks, and an error when the content does not start with the header
requiredSections == << "Build and Development Commands", "Core Architecture" >>

hasSection(cs, section) ==
    \/ IncludesCs(cs, << "#", "#", " " >> \o Chars(section))
    \/ IncludesCs(cs, << "#", " " >> \o Chars(section))

applyClaudeFileRules(cs) ==
    Concat([i \in 1..Len(requiredSections) |->
              IF ~hasSection(cs, requiredSections[i])
              THEN << Issue("claude-structure", "warning") >>
              ELSE << >>])
    \o (IF ~StartsWith(cs, Chars("# CLAUDE.md"))
        THEN << Issue("claude-header", "error") >>
        ELSE << >>)

ClaudeIssuesTable == Tabulate([c \in LintContents |-> applyClaudeFileRules(Chars(c))])

\* result.issues.push(...claudeIssues); result.score = calculateQualityScore:
\* the summary of the result stays as lintMemory made it
WithClaudeIssues(result, content, issues) ==
    [result EXCEPT !.issues = issues,
                   !.score = calculateQualityScore(content, issues)]

\* lintClaudeFile(filePath) for a file with the content given
lintClaudeFile(rules, content) ==
    IF lintMemory(rules, content).threw THEN LintRejected
    ELSE WithClaudeIssues(lintMemory(rules, content), content,
                          lintMemory(rules, content).issues \o ClaudeIssuesTable[content])

\* rules.set(rule.id, rule): a rule with the id of a stored rule takes its place
SetRule(rules, rule) ==
    IF \E i \in 1..Len(rules) : rules[i].id = rule.id
    THEN [i \in 1..Len(rules) |-> IF rules[i].id = rule.id THEN rule ELSE rules[i]]
    ELSE Append(rules, rule)

\* rules.has(ruleId) and rules.get(ruleId)
HasRule(rules, ruleId) == \E i \in 1..Len(rules) : rules[i].id = ruleId

getRule(rules, ruleId) == rules[CHOOSE i \in 1..Len(rules) : rules[i].id = ruleId]

\* the objects a caller makes to hand them to addRule: a rule of its own, the
\* import rule made milder, and a rule that throws when it is applied
CallerRules ==
    [ custom |-> [ Rule("custom-rule", "error") EXCEPT !.obj = "custom" ],
      milder |-> [ Rule("import-syntax", "info") EXCEPT !.obj = "milder" ],
      throwing |-> [ Rule("throwing-rule", "error") EXCEPT !.obj = "throwing",
                                                          !.throws = TRUE ] ]

\* rule.enabled = enabled as a Map sees it: its entry is the object changed
\* when it holds the object
SeenEnabled(rules, rule, enabled) ==
    [i \in 1..Len(rules) |->
       IF rules[i].id = rule.id /\ rules[i].obj = rule.obj
       THEN [rules[i] EXCEPT !.enabled = enabled]
       ELSE rules[i]]

\* setRuleEnabled(ruleId, enabled) on the linter whose Map is mine, theirs
\* being the Map of the other linter and heap the caller's objects: what the
\* call returns and the three afterwards. The rule object is changed in
\* place, so every holder of the object sees the change.
setRuleEnabled(mine, theirs, heap, ruleId, enabled) ==
    IF ~HasRule(mine, ruleId)
    THEN [ returned |-> FALSE, mine |-> mine, theirs |-> theirs, heap |-> heap ]
    ELSE LET rule == getRule(mine, ruleId)
         IN  [ returned |-> TRUE,
               mine |-> SeenEnabled(mine, rule, enabled),
               theirs |-> IF rule.obj = "own" THEN theirs
                          ELSE SeenEnabled(theirs, rule, enabled),
               heap |-> IF rule.obj = "own" THEN heap
                        ELSE [heap EXCEPT ![rule.obj].enabled = enabled] ]

(***************************************************************************)
(* The calls                                                               *)
(***************************************************************************)

\* a second SemanticSearch instance, the target of importIndex
VARIABLES replica

\* the indexMemory calls suspended at their await, in the order they were
\* started, and the record of the calls that overlapped
VARIABLES pending, lastBatch

\* the last search, findSimilar or getTrendingKeywords call and its result
VARIABLES lastSearch

\* the rules of a MemoryLinter, and its last lintMemory call and its result;
\* the rules of a second MemoryLinter of the same program, and the rule
\* objects the caller hands to addRule, as they are now
VARIABLES rules, lastLint, otherRules, callerRules

indexVars == << memoryIndex, keywordInvertedIndex, entityIndex >>

resolverVars == << importCache, importGraph, fileSystem, lastResolve >>

asyncVars == << pending, lastBatch >>

queryVars == << lastSearch >>

lintVars == << rules, lastLint, otherRules, callerRules >>

vars == << memoryIndex, keywordInvertedIndex, entityIndex, now, lastCall, replica,
           importCache, importGraph, fileSystem, lastResolve, pending, lastBatch,
           lastSearch, rules, lastLint, otherRules, callerRules >>

\* bounds of the model
MaxTicks == 1

MaxDepthArg == 3

\* the clock advances in steps of TickDays days
TickDays == 8

\* the metadata arguments callers pass
MetadataArgs == { EmptyMap, [priority |-> "high"] }

Index == IndexOf(memoryIndex, keywordInvertedIndex, entityIndex)

SetIndex(idx) ==
    /\ memoryIndex' = idx.memoryIndex
    /\ keywordInvertedIndex' = idx.keywordInvertedIndex
    /\ entityIndex' = idx.entityIndex

Call(op, id, content, result) ==
    [op |-> op, id |-> id, content |-> content, result |-> result]

NoCall == Call("none", "", "", "")

NoResolve ==
    [ filePath |-> "", maxDepth |-> 0, threw |-> FALSE, results |-> << >>,
      log |-> << >>, reads |-> << >>, loops |-> << >>, cacheWasEmpty |-> TRUE ]

NoBatch == [ base |-> EmptyIndex, started |-> 0, done |-> << >> ]

NoSearch == [ op |-> "none" ]

NoLint == [ op |-> "none" ]

InitIndex ==
    /\ memoryIndex = << >>
    /\ keywordInvertedIndex = EmptyMap
    /\ entityIndex = EmptyMap
    /\ now = 0
    /\ lastCall = NoCall
    /\ replica = EmptyIndex
    /\ pending = << >>
    /\ lastBatch = NoBatch
    /\ lastSearch = NoSearch
    /\ rules = DefaultRules
    /\ lastLint = NoLint
    /\ otherRules = DefaultRules
    /\ callerRules = CallerRules

InitResolver ==
    /\ importCache = EmptyMap
    /\ importGraph = EmptyMap
    /\ lastResolve = NoResolve

Init ==
    /\ InitIndex
    /\ InitResolver
    /\ fileSystem = CHOOSE s \in Scenarios : s.files = FilesCycle

\* await indexMemory(id, content, metadata)
IndexMemory(id, content, metadata) ==
    /\ SetIndex(indexMemory(Index, id, content, metadata, "unknown", now))
    /\ lastCall' = Call("indexMemory", id, content, "ok")
    /\ UNCHANGED << now, replica, resolverVars, asyncVars, queryVars, lintVars >>

\* updateMemory that indexes the content when the id is not stored
UpdateMemoryCreates(id, newContent, metadata) ==
    /\ IF ~MapHas(memoryIndex, id)
       THEN SetIndex(indexMemory(Index, id, newContent, metadata, "unknown", now))
       ELSE SetIndex(updateMemory(Index, id, newContent, metadata, now))
    /\ lastCall' = Call("updateMemory", id, newContent, "ok")
    /\ UNCHANGED << now, replica, resolverVars, asyncVars, queryVars, lintVars >>

\* await updateMemory(id, newContent, metadata)
UpdateMemory(id, newContent, metadata) ==
    /\ IF ~MapHas(memoryIndex, id)
       THEN /\ lastCall' = Call("updateMemory", id, newContent, "Memory not found")
            /\ UNCHANGED indexVars
       ELSE /\ SetIndex(updateMemory(Index, id, newContent, metadata, now))
            /\ lastCall' = Call("updateMemory", id, newContent, "ok")
    /\ UNCHANGED << now, replica, resolverVars, asyncVars, queryVars, lintVars >>

\* removeMemory that reports success whether or not the id is stored
RemoveMemoryUnchecked(id) ==
    /\ IF ~MapHas(memoryIndex, id)
       THEN UNCHANGED indexVars
       ELSE SetIndex(removeMemory(Index, id))
    /\ lastCall' = Call("removeMemory", id, "", "true")
    /\ UNCHANGED << now, replica, resolverVars, asyncVars, queryVars, lintVars >>

\* removeMemory(id)
RemoveMemory(id) ==
    /\ IF ~MapHas(memoryIndex, id)
       THEN /\ lastCall' = Call("removeMemory", id, "", "false")
            /\ UNCHANGED indexVars
       ELSE /\ SetIndex(removeMemory(Index, id))
            /\ lastCall' = Call("removeMemory", id, "", "true")
    /\ UNCHANGED << now, replica, resolverVars, asyncVars, queryVars, lintVars >>

\* time passes between two calls
Tick ==
    /\ now < MaxTicks * TickDays
    /\ now' = now + TickDays
    /\ UNCHANGED << indexVars, lastCall, replica, resolverVars, asyncVars, queryVars,
                    lintVars >>

\* A.exportIndex() handed to importIndex of the fresh instance
ExportImport ==
    /\ lastCall.op # "importIndex"
    /\ replica' = importIndex(exportIndex(Index, now)).index
    /\ lastCall' = Call("importIndex", "", "", "ok")
    /\ UNCHANGED << indexVars, now, resolverVars, asyncVars, queryVars, lintVars >>

\* the indexes whose exports callers import
SnapshotIndexes ==
    { EmptyIndex,
      indexMemory(EmptyIndex, "m2", TextQuery, EmptyMap, "unknown", 0),
      indexMemory(indexMemory(EmptyIndex, "m1", TextProto, EmptyMap, "unknown", 0),
                  "m2", TextM1, EmptyMap, "unknown", 0) }

\* the snapshots callers pass to importIndex: what exportIndex returned
Snapshots == { exportIndex(idx, 0) : idx \in SnapshotIndexes }

\* what is kept of an importIndex call: the snapshot, the number returned and
\* the ids that were stored before the call
ImportCall(snapshot, returned, before) ==
    [ op |-> "importIndex", id |-> "", content |-> "", result |-> "ok",
      snapshot |-> snapshot, returned |-> returned, before |-> before ]

\* importIndex without the three clear() calls: the snapshot is merged into
\* the maps
ImportIndexMerging(snapshot) ==
    /\ SetIndex(IndexOf(SetAll(memoryIndex, snapshot.memories),
                        Spread(keywordInvertedIndex, importIndex(snapshot).index.keywordInvertedIndex),
                        Spread(entityIndex, importIndex(snapshot).index.entityIndex)))
    /\ lastCall' = ImportCall(snapshot, importIndex(snapshot).returned,
                              { memoryIndex[i].id : i \in 1..Len(memoryIndex) })
    /\ UNCHANGED << now, replica, resolverVars, asyncVars, queryVars, lintVars >>

\* importIndex(snapshot) on the instance
ImportIndex(snapshot) ==
    /\ SetIndex(importIndex(snapshot).index)
    /\ lastCall' = ImportCall(snapshot, importIndex(snapshot).returned,
                              { memoryIndex[i].id : i \in 1..Len(memoryIndex) })
    /\ UNCHANGED << now, replica, resolverVars, asyncVars, queryVars, lintVars >>

\* entries are indexed and removed, and snapshots are imported
NextImportIndex ==
    \/ \E id \in Ids, content \in ExportContents :
          IndexMemory(id, content, EmptyMap)
    \/ \E id \in Ids : RemoveMemory(id)
    \/ \E snapshot \in Snapshots : ImportIndex(snapshot)

SpecImportIndex == Init /\ [][NextImportIndex]_vars

\* what a call of resolveImports that came to out leaves behind
ResolveImportsYields(filePath, maxDepth, out) ==
    /\ importCache' = out.r.cache
    /\ importGraph' = out.r.graph
    /\ lastResolve' =
          [ filePath |-> filePath, maxDepth |-> maxDepth, threw |-> out.threw,
            results |-> out.results,
            log |-> IF out.threw
                    THEN Append(out.r.log, Log("error", "Failed to resolve imports",
                                               filePath))
                    ELSE out.r.log,
            reads |-> out.r.reads, loops |-> out.r.loops,
            cacheWasEmpty |-> importCache = EmptyMap ]
    /\ UNCHANGED << indexVars, now, lastCall, replica, fileSystem, asyncVars,
                    queryVars, lintVars >>

\* await resolveImports(filePath, { maxDepth })
ResolveImports(filePath, maxDepth) ==
    ResolveImportsYields(filePath, maxDepth,
                         resolveImports(fileSystem.files, importCache, importGraph,
                                        filePath, maxDepth, now))

\* a clearCache that leaves the dependency graph as it is
ClearCacheKeepingGraph ==
    /\ importCache' = EmptyMap
    /\ UNCHANGED << importGraph, indexVars, now, lastCall, replica, fileSystem,
                    lastResolve, asyncVars, queryVars, lintVars >>

\* clearCache()
ClearCache ==
    /\ importCache' = EmptyMap
    /\ importGraph' = EmptyMap
    /\ UNCHANGED << indexVars, now, lastCall, replica, fileSystem, lastResolve,
                    asyncVars, queryVars, lintVars >>

(***************************************************************************)
(* Specifications                                                          *)
(***************************************************************************)

\* the index under any sequence of indexMemory, updateMemory and removeMemory
\* calls, one at a time
Next ==
    \/ \E id \in Ids, content \in Contents, metadata \in MetadataArgs :
          IndexMemory(id, content, metadata)
    \/ \E id \in Ids, content \in Contents, metadata \in MetadataArgs :
          UpdateMemory(id, content, metadata)
    \/ \E id \in Ids : RemoveMemory(id)
    \/ Tick

Spec == Init /\ [][Next]_vars

\* callers that store contents with and without keywords
NextVectors ==
    \/ \E id \in Ids, content \in VectorContents, metadata \in MetadataArgs :
          IndexMemory(id, content, metadata)
    \/ \E id \in Ids, content \in VectorContents, metadata \in MetadataArgs :
          UpdateMemory(id, content, metadata)
    \/ \E id \in Ids : RemoveMemory(id)
    \/ Tick

SpecVectors == Init /\ [][NextVectors]_vars

\* the same, for callers that call indexMemory only for an id that is not
\* stored
NextCreateOnce ==
    \/ \E id \in Ids, content \in Contents, metadata \in MetadataArgs :
          ~MapHas(memoryIndex, id) /\ IndexMemory(id, content, metadata)
    \/ \E id \in Ids, content \in Contents, metadata \in MetadataArgs :
          UpdateMemory(id, content, metadata)
    \/ \E id \in Ids : RemoveMemory(id)
    \/ Tick

SpecCreateOnce == Init /\ [][NextCreateOnce]_vars

\* the end-to-end example: the two texts are indexed
NextExample ==
    \/ \E id \in Ids, content \in ExampleContents, metadata \in MetadataArgs :
          IndexMemory(id, content, metadata)
    \/ Tick

SpecExample == Init /\ [][NextExample]_vars

\* a sequence of indexMemory calls, then the export into a fresh instance
NextRoundTrip ==
    \/ \E id \in Ids, content \in ExportContents, metadata \in MetadataArgs :
          lastCall.op # "importIndex" /\ IndexMemory(id, content, metadata)
    \/ lastCall.op # "importIndex" /\ Tick
    \/ ExportImport

SpecRoundTrip == Init /\ [][NextRoundTrip]_vars

\* a resolver on one of the file systems
InitImports ==
    /\ InitIndex
    /\ InitResolver
    /\ fileSystem \in Scenarios

NextImports ==
    \/ \E filePath \in fileSystem.roots, maxDepth \in 0..MaxDepthArg :
          ResolveImports(filePath, maxDepth)
    \/ ClearCache

SpecImports == InitImports /\ [][NextImports]_vars

(***************************************************************************)
(* Overlapping indexMemory calls                                           *)
(***************************************************************************)

\* at most MaxOverlap calls belong to one group of overlapping calls
MaxOverlap == 2

\* indexMemory up to its await: the keywords and the entities of the content
\* are extracted into locals of the call
indexMemoryUntilAwait(id, content, metadata, source) ==
    [ id |-> id, content |-> content, metadata |-> metadata, source |-> source,
      keywords |-> KeywordsOf[content], entities |-> EntitiesOf[content] ]

\* indexMemory from its await on, run at time t in one piece: the entry is
\* built with the timestamp of that moment, stored, and the postings updated
indexMemoryAfterAwait(idx, call, t) ==
    LET memoryEntry == [ id |-> call.id, content |-> call.content,
                         vectors |-> VectorsOf[call.content],
                         keywords |-> call.keywords, entities |-> call.entities,
                         metadata |-> call.metadata, timestamp |-> t,
                         source |-> call.source ]
        stored == [idx EXCEPT !.memoryIndex = MapSet(@, memoryEntry)]
    IN  updateInvertedIndexes(stored, call.id, call.keywords, call.entities)

PendingIds == { pending[i].call.id : i \in 1..Len(pending) }

\* indexMemory(id, content, metadata) is called and suspends at its await; the
\* callers never have two calls for one id in flight
StartIndexMemory(id, content, metadata) ==
    /\ id \notin PendingIds
    /\ IF pending = << >>
       THEN lastBatch' = [ base |-> Index, started |-> 1, done |-> << >> ]
       ELSE /\ lastBatch.started < MaxOverlap
            /\ lastBatch' = [lastBatch EXCEPT !.started = @ + 1]
    /\ pending' = Append(pending,
                         [ call |-> indexMemoryUntilAwait(id, content, metadata, "unknown"),
                           seq |-> lastBatch'.started ])
    /\ lastCall' = Call("indexMemory", id, content, "pending")
    /\ UNCHANGED << indexVars, now, replica, resolverVars, queryVars, lintVars >>

\* the resumption of a call that finds the keywords and the entities in a
\* field of the instance, where the call started last has left its own
FinishIndexMemorySharedLocals(i) ==
    LET last == pending[Len(pending)].call
        call == [pending[i].call EXCEPT !.keywords = last.keywords,
                                        !.entities = last.entities]
    IN  /\ i \in 1..Len(pending)
        /\ SetIndex(indexMemoryAfterAwait(Index, call, now))
        /\ pending' = [j \in 1..(Len(pending) - 1) |->
                          IF j < i THEN pending[j] ELSE pending[j + 1]]
        /\ lastBatch' = [lastBatch EXCEPT !.done =
                            Append(@, [ call |-> pending[i].call, seq |-> pending[i].seq,
                                        t |-> now ])]
        /\ lastCall' = Call("indexMemory", pending[i].call.id, pending[i].call.content, "ok")
        /\ UNCHANGED << now, replica, resolverVars, queryVars, lintVars >>

\* the i-th suspended call is resumed and runs to its end
FinishIndexMemory(i) ==
    /\ i \in 1..Len(pending)
    /\ SetIndex(indexMemoryAfterAwait(Index, pending[i].call, now))
    /\ pending' = [j \in 1..(Len(pending) - 1) |->
                      IF j < i THEN pending[j] ELSE pending[j + 1]]
    /\ lastBatch' = [lastBatch EXCEPT !.done =
                        Append(@, [ call |-> pending[i].call, seq |-> pending[i].seq,
                                    t |-> now ])]
    /\ lastCall' = Call("indexMemory", pending[i].call.id, pending[i].call.content, "ok")
    /\ UNCHANGED << now, replica, resolverVars, queryVars, lintVars >>

\* indexMemory calls that overlap, for distinct ids
NextConcurrent ==
    \/ \E id \in Ids, content \in Contents :
          StartIndexMemory(id, content, EmptyMap)
    \/ \E i \in 1..MaxOverlap : FinishIndexMemory(i)
    \/ Tick

SpecConcurrent == Init /\ [][NextConcurrent]_vars

\* updateMemory(id, newContent, metadata) is called: for an id that is not
\* stored it throws; else it removes the postings of the stored entry and
\* suspends at the await of the indexMemory call it makes, whose metadata and
\* source are those of the stored entry at the time of the call
StartUpdateMemory(id, newContent, metadata) ==
    /\ id \notin PendingIds
    /\ IF ~MapHas(memoryIndex, id)
       THEN /\ lastCall' = Call("updateMemory", id, newContent, "Memory not found")
            /\ UNCHANGED << indexVars, pending, lastBatch >>
       ELSE LET existingMemory == MapGet(memoryIndex, id)
            IN  /\ IF pending = << >>
                   THEN lastBatch' = [ base |-> Index, started |-> 1, done |-> << >> ]
                   ELSE /\ lastBatch.started < MaxOverlap
                        /\ lastBatch' = [lastBatch EXCEPT !.started = @ + 1]
                /\ SetIndex(removeFromInvertedIndexes(Index, id, existingMemory.keywords,
                                                      existingMemory.entities))
                /\ pending' =
                      Append(pending,
                             [ call |-> indexMemoryUntilAwait(
                                            id, newContent,
                                            Spread(Spread(existingMemory.metadata, metadata),
                                                   [lastModified |-> now]),
                                            existingMemory.source),
                               seq |-> lastBatch'.started ])
                /\ lastCall' = Call("updateMemory", id, newContent, "pending")
    /\ UNCHANGED << now, replica, resolverVars, queryVars, lintVars >>

\* indexMemory calls for ids that are not stored and updateMemory calls, both
\* suspending, and removeMemory calls in between
NextOverlap ==
    \/ \E id \in Ids :
          ~MapHas(memoryIndex, id) /\ StartIndexMemory(id, TextM1, EmptyMap)
    \/ \E id \in Ids :
          StartUpdateMemory(id, TextQuery, EmptyMap)
    \/ \E i \in 1..MaxOverlap : FinishIndexMemory(i)
    \/ \E id \in Ids : RemoveMemory(id)

SpecOverlap == Init /\ [][NextOverlap]_vars

(***************************************************************************)
(* Queries                                                                 *)
(***************************************************************************)

\* the largest maxResults callers pass besides the default
MaxResultsArg == 1

\* the options callers pass to search
SearchOptionArgs == { EmptyMap } \cup { [maxResults |-> n] : n \in 0..MaxResultsArg }

\* await search(query, options): the options are spread over the defaults.
\* Of the call are kept the ids its lookups matched, its candidates and the
\* score of each candidate, and the results.
SearchYields(query, opts, matched, candidates, results) ==
    /\ lastSearch' =
          [ op |-> "search", query |-> query, opts |-> opts, t |-> now,
            matched |-> matched,
            candidates |-> [i \in 1..Len(candidates) |-> candidates[i].id],
            scored |-> ScoreEach(candidates, query, now),
            results |-> results ]
    /\ UNCHANGED << indexVars, now, lastCall, replica, resolverVars, asyncVars,
                    lintVars >>

SearchWith(query, opts) ==
    SearchYields(query, opts,
                 MatchedIds(Index, KeywordsOf[query], EntitiesOf[query]),
                 getCandidateMemories(Index, KeywordsOf[query], EntitiesOf[query],
                                      opts, now),
                 search(Index, query, opts, now))

Search(query, options) == SearchWith(query, Spread(DefaultOptions, options))

\* the options callers pass to findSimilar
SimilarOptionArgs == { EmptyMap, [searchScope |-> "recent"] }

\* await findSimilar(memoryId, options)
FindSimilar(memoryId, options) ==
    /\ IF ~MapHas(memoryIndex, memoryId)
       THEN lastSearch' = [ op |-> "findSimilar", memoryId |-> memoryId,
                            options |-> options, t |-> now, threw |-> TRUE,
                            results |-> << >> ]
       ELSE lastSearch' = [ op |-> "findSimilar", memoryId |-> memoryId,
                            options |-> options, t |-> now, threw |-> FALSE,
                            results |-> findSimilar(Index, memoryId, options, now) ]
    /\ UNCHANGED << indexVars, now, lastCall, replica, resolverVars, asyncVars,
                    lintVars >>

\* the index is built by indexMemory, updateMemory and removeMemory calls and
\* then queried; indexMemory is called only for an id that is not stored
NextSearch ==
    \/ \E id \in Ids, content \in Contents, metadata \in MetadataArgs :
          /\ lastSearch = NoSearch
          /\ ~MapHas(memoryIndex, id)
          /\ IndexMemory(id, content, metadata)
    \/ \E id \in Ids, content \in Contents :
          lastSearch = NoSearch /\ UpdateMemory(id, content, EmptyMap)
    \/ \E id \in Ids : lastSearch = NoSearch /\ RemoveMemory(id)
    \/ lastSearch = NoSearch /\ Tick
    \/ \E query \in SearchQueries, options \in SearchOptionArgs :
          lastSearch = NoSearch /\ Search(query, options)
    \/ \E memoryId \in Ids, options \in SimilarOptionArgs :
          lastSearch = NoSearch /\ FindSimilar(memoryId, options)

SpecSearch == Init /\ [][NextSearch]_vars

\* the metadata of entries that are searched by scope
ScopedMetadataArgs == { EmptyMap, [priority |-> "high"], [important |-> TRUE] }

\* search options with a scope or a time range; minRelevanceScore 0 keeps
\* the candidates no keyword or entity matched among the results
ScopedOptionArgs ==
    { [minRelevanceScore |-> 0, searchScope |-> "recent"],
      [minRelevanceScore |-> 0, searchScope |-> "important"],
      [minRelevanceScore |-> 0, timeRange |-> [start |-> TickDays, end |-> TickDays]],
      [minRelevanceScore |-> 0, timeRange |-> [start |-> 0, end |-> 0],
       searchScope |-> "important"] }

\* a query that matches the stored content and a query that matches nothing
ScopedQueries == { TextQuery, "John Smith uses API" }

\* entries are stored at different times and then searched by scope
NextScoped ==
    \/ \E id \in Ids, metadata \in ScopedMetadataArgs :
          /\ lastSearch = NoSearch
          /\ ~MapHas(memoryIndex, id)
          /\ IndexMemory(id, TextQuery, metadata)
    \/ \E id \in Ids, metadata \in ScopedMetadataArgs :
          lastSearch = NoSearch /\ UpdateMemory(id, TextQuery, metadata)
    \/ lastSearch = NoSearch /\ Tick
    \/ \E query \in ScopedQueries, options \in ScopedOptionArgs :
          lastSearch = NoSearch /\ Search(query, options)

SpecScoped == Init /\ [][NextScoped]_vars

\* the same for callers that call indexMemory for stored ids as well, and
\* search with the default options
NextSearchReindexed ==
    \/ \E id \in Ids, content \in Contents :
          lastSearch = NoSearch /\ IndexMemory(id, content, EmptyMap)
    \/ \E id \in Ids : lastSearch = NoSearch /\ RemoveMemory(id)
    \/ \E query \in SearchQueries : lastSearch = NoSearch /\ Search(query, EmptyMap)

SpecSearchReindexed == Init /\ [][NextSearchReindexed]_vars

\* the keywords and the entities callers look up
KeywordArgs == { << >>, << "Tests" >>, << "deploy", "tests" >>, << "missing" >> }

EntityArgs == { << "USE" >>, << "Deployment", "Use" >>, << "smith" >> }

\* getByKeywords(keywords)
GetByKeywords(keywords) ==
    /\ lastSearch' = [ op |-> "getByKeywords", terms |-> keywords, t |-> now,
                       results |-> getByKeywords(Index, keywords) ]
    /\ UNCHANGED << indexVars, now, lastCall, replica, resolverVars, asyncVars,
                    lintVars >>

\* getByEntities(entities)
GetByEntities(entities) ==
    /\ lastSearch' = [ op |-> "getByEntities", terms |-> entities, t |-> now,
                       results |-> getByEntities(Index, entities) ]
    /\ UNCHANGED << indexVars, now, lastCall, replica, resolverVars, asyncVars,
                    lintVars >>

\* the contents that are looked up by keyword and by entity
LookupContents == { TextM1, TextM2, TextQuery }

\* entries are indexed, indexed again and removed, then looked up
NextLookup ==
    \/ \E id \in Ids, content \in LookupContents :
          lastSearch = NoSearch /\ IndexMemory(id, content, EmptyMap)
    \/ \E id \in Ids : lastSearch = NoSearch /\ RemoveMemory(id)
    \/ \E keywords \in KeywordArgs : lastSearch = NoSearch /\ GetByKeywords(keywords)
    \/ \E entities \in EntityArgs : lastSearch = NoSearch /\ GetByEntities(entities)

SpecLookup == Init /\ [][NextLookup]_vars

\* entries are indexed, indexed again, updated and removed; then one of the
\* four queries is made
NextRemoved ==
    \/ \E id \in Ids, content \in ExampleContents :
          lastSearch = NoSearch /\ IndexMemory(id, content, EmptyMap)
    \/ \E id \in Ids :
          lastSearch = NoSearch /\ UpdateMemory(id, TextQuery, EmptyMap)
    \/ \E id \in Ids : lastSearch = NoSearch /\ RemoveMemory(id)
    \/ lastSearch = NoSearch /\ Search(TextQuery, EmptyMap)
    \/ \E memoryId \in Ids : lastSearch = NoSearch /\ FindSimilar(memoryId, EmptyMap)
    \/ lastSearch = NoSearch /\ GetByKeywords(<< "Tests" >>)
    \/ lastSearch = NoSearch /\ GetByEntities(<< "USE" >>)

SpecRemoved == Init /\ [][NextRemoved]_vars

\* the time windows callers pass to getTrendingKeywords, in days
TimeWindowArgs == { DefaultTimeWindow, 0 }

\* getTrendingKeywords(timeWindow)
GetTrendingKeywords(timeWindow) ==
    /\ lastSearch' = [ op |-> "getTrendingKeywords", timeWindow |-> timeWindow,
                       t |-> now,
                       results |-> getTrendingKeywords(Index, timeWindow, now) ]
    /\ UNCHANGED << indexVars, now, lastCall, replica, resolverVars, asyncVars,
                    lintVars >>

\* the index is built by indexMemory, updateMemory and removeMemory calls on
\* contents with repeated keywords, and then asked for its trending keywords
NextTrending ==
    \/ \E id \in Ids, content \in TrendContents :
          lastSearch = NoSearch /\ IndexMemory(id, content, EmptyMap)
    \/ \E id \in Ids : lastSearch = NoSearch /\ UpdateMemory(id, TextTwice, EmptyMap)
    \/ \E id \in Ids : lastSearch = NoSearch /\ RemoveMemory(id)
    \/ lastSearch = NoSearch /\ Tick
    \/ \E timeWindow \in TimeWindowArgs :
          lastSearch = NoSearch /\ GetTrendingKeywords(timeWindow)

SpecTrending == Init /\ [][NextTrending]_vars

(***************************************************************************)
(* The linter's calls                                                      *)
(***************************************************************************)

\* what a setRuleEnabled call of the linter that came to out leaves behind
SetRuleEnabledYields(ruleId, out) ==
    /\ rules' = out.mine
    /\ otherRules' = out.theirs
    /\ callerRules' = out.heap
    /\ lastCall' = Call("setRuleEnabled", ruleId, "",
                     IF out.returned THEN "true" ELSE "false")
    /\ UNCHANGED << indexVars, now, replica, resolverVars, asyncVars, queryVars,
                    lastLint >>

\* setRuleEnabled(ruleId, enabled)
SetRuleEnabled(ruleId, enabled) ==
    SetRuleEnabledYields(ruleId,
                         setRuleEnabled(rules, otherRules, callerRules, ruleId, enabled))

\* the same for the second linter
OtherSetRuleEnabledYields(ruleId, out) ==
    /\ otherRules' = out.mine
    /\ rules' = out.theirs
    /\ callerRules' = out.heap
    /\ lastCall' = Call("other.setRuleEnabled", ruleId, "",
                     IF out.returned THEN "true" ELSE "false")
    /\ UNCHANGED << indexVars, now, replica, resolverVars, asyncVars, queryVars,
                    lastLint >>

\* other.setRuleEnabled(ruleId, enabled)
OtherSetRuleEnabled(ruleId, enabled) ==
    OtherSetRuleEnabledYields(ruleId,
                              setRuleEnabled(otherRules, rules, callerRules, ruleId,
                                             enabled))

\* the rule objects callers hand to addRule
RuleArgs == DOMAIN CallerRules

\* the rule ids callers name
RuleIdArgs == { "import-syntax", "length-check", "custom-rule", "no-such-rule" }

\* addRule(rule), rule being the caller's object named
AddRule(rule) ==
    /\ rules' = SetRule(rules, callerRules[rule])
    /\ lastCall' = Call("addRule", callerRules[rule].id, "", "ok")
    /\ UNCHANGED << indexVars, now, replica, resolverVars, asyncVars, queryVars,
                    lastLint, otherRules, callerRules >>

\* other.addRule(rule)
OtherAddRule(rule) ==
    /\ otherRules' = SetRule(otherRules, callerRules[rule])
    /\ lastCall' = Call("other.addRule", callerRules[rule].id, "", "ok")
    /\ UNCHANGED << indexVars, now, replica, resolverVars, asyncVars, queryVars,
                    lastLint, rules, callerRules >>

\* await lintMemory(content)
LintMemory(content) ==
    /\ lastLint' = [ op |-> "lintMemory", content |-> content,
                     result |-> lintMemory(rules, content) ]
    /\ UNCHANGED << indexVars, now, lastCall, replica, resolverVars, asyncVars,
                    queryVars, rules, otherRules, callerRules >>

\* await lintClaudeFile(filePath), the file holding the content
LintClaudeFile(content) ==
    /\ lastLint' = [ op |-> "lintClaudeFile", content |-> content,
                     result |-> lintClaudeFile(rules, content) ]
    /\ UNCHANGED << indexVars, now, lastCall, replica, resolverVars, asyncVars,
                    queryVars, rules, otherRules, callerRules >>

\* a linter is configured and then lints one content
NextLint ==
    \/ \E ruleId \in RuleIdArgs, enabled \in BOOLEAN :
          lastLint = NoLint /\ SetRuleEnabled(ruleId, enabled)
    \/ \E rule \in RuleArgs : lastLint = NoLint /\ AddRule(rule)
    \/ \E content \in LintContents : lastLint = NoLint /\ LintMemory(content)
    \/ \E content \in LintContents : lastLint = NoLint /\ LintClaudeFile(content)

SpecLint == Init /\ [][NextLint]_vars

\* the contents the two linters of one program lint
SharedLintContents == { LintImports, LintCommands }

\* two linters of one program are configured, with rule objects of their
\* own or with the same ones, and the first then lints one content
NextLinters ==
    \/ \E ruleId \in { "import-syntax", "custom-rule" }, enabled \in BOOLEAN :
          lastLint = NoLint /\ SetRuleEnabled(ruleId, enabled)
    \/ \E ruleId \in { "import-syntax", "custom-rule" }, enabled \in BOOLEAN :
          lastLint = NoLint /\ OtherSetRuleEnabled(ruleId, enabled)
    \/ \E rule \in { "custom", "milder" } : lastLint = NoLint /\ AddRule(rule)
    \/ \E rule \in { "custom", "milder" } : lastLint = NoLint /\ OtherAddRule(rule)
    \/ \E content \in SharedLintContents : lastLint = NoLint /\ LintMemory(content)

SpecLinters == Init /\ [][NextLinters]_vars

(***************************************************************************)
(* Properties                                                              *)
(***************************************************************************)

\* the keys of a posting map whose posting set holds id
PostingKeys(index, id) == { k \in DOMAIN index : IncludesElem(index[k], id) }

\* C1: when indexMemory is only called for ids that are not stored, then after
\* updateMemory(id, c') has completed the keyword and entity posting sets that
\* hold id are exactly those of the terms extracted from c', and after
\* removeMemory(id) has returned true no posting set holds id.
C1_NoStalePostingsAfterUpdateOrRemove ==
    /\ (lastCall.op = "updateMemory" /\ lastCall.result = "ok") =>
          /\ PostingKeys(keywordInvertedIndex, lastCall.id)
                = LowerSet(extractKeywords(lastCall.content))
          /\ PostingKeys(entityIndex, lastCall.id)
                = LowerSet(extractEntities(lastCall.content))
    /\ (lastCall.op = "removeMemory" /\ lastCall.result = "true") =>
          /\ PostingKeys(keywordInvertedIndex, lastCall.id) = {}
          /\ PostingKeys(entityIndex, lastCall.id) = {}

\* an updateMemory has completed on an entry while the other entry shares a
\* keyword posting set with it
C1_Witness ==
    /\ lastCall.op = "updateMemory" /\ lastCall.result = "ok"
    /\ MapHas(memoryIndex, lastCall.id)
    /\ MapGet(memoryIndex, lastCall.id).content = lastCall.content
    /\ "lastModified" \in DOMAIN MapGet(memoryIndex, lastCall.id).metadata
    /\ \E k \in DOMAIN keywordInvertedIndex : Len(keywordInvertedIndex[k]) = 2

\* C2: in every state reached by indexMemory, updateMemory and removeMemory
\* calls, an id is in a keyword or entity posting set only if an entry with
\* that id is stored and its current content yields that term.
C2_PostingsMatchCurrentContent ==
    \A id \in Ids :
        /\ \A k \in PostingKeys(keywordInvertedIndex, id) :
              /\ MapHas(memoryIndex, id)
              /\ k \in LowerSet(extractKeywords(MapGet(memoryIndex, id).content))
        /\ \A k \in PostingKeys(entityIndex, id) :
              /\ MapHas(memoryIndex, id)
              /\ k \in LowerSet(extractEntities(MapGet(memoryIndex, id).content))

\* the options search is compared under
SearchOptions == { DefaultOptions, [DefaultOptions EXCEPT !.minRelevanceScore = 0] }

\* C3: after any sequence of indexMemory calls on index A, importing
\* A.exportIndex() into a fresh index B makes the entry store, the keyword
\* postings and the entity postings of B equal to those of A, and search on B
\* returns what search on A returns, for every query and options.
C3_ExportImportRoundTrip ==
    lastCall.op = "importIndex" =>
        /\ replica.memoryIndex = memoryIndex
        /\ replica.keywordInvertedIndex = keywordInvertedIndex
        /\ replica.entityIndex = entityIndex
        /\ \A query \in Queries, opts \in SearchOptions :
              search(replica, query, opts, now) = search(Index, query, opts, now)

\* C6: with an index that holds exactly m1 and m2 of the end-to-end example,
\* search("deploy tests") with default options returns both m1 and m2, each
\* with relevanceScore > 0 and a non-empty context.
C6_ExampleReturnsBoth ==
    ( /\ Len(memoryIndex) = 2
      /\ MapHas(memoryIndex, "m1") /\ MapGet(memoryIndex, "m1").content = TextM1
      /\ MapHas(memoryIndex, "m2") /\ MapGet(memoryIndex, "m2").content = TextM2 ) =>
        LET results == search(Index, TextQuery, DefaultOptions, now)
        IN  \A id \in { "m1", "m2" } :
               \E i \in 1..Len(results) :
                   /\ results[i].id = id
                   /\ results[i].relevanceScore > 0
                   /\ results[i].context # ""

\* C7: updateMemory(id, ...) for an id that is not stored fails with a
\* not-found error and leaves the entry store and both posting maps as they
\* were; no entry for id is created.
C7_UpdateUnknownFails ==
    [][ \A id \in Ids, content \in Contents, metadata \in MetadataArgs :
          (~MapHas(memoryIndex, id) /\ UpdateMemory(id, content, metadata)) =>
              /\ lastCall'.result = "Memory not found"
              /\ UNCHANGED indexVars
              /\ ~MapHas(memoryIndex', id) ]_vars

\* updateMemory was called for an id that is not stored, on an index that
\* holds another entry
C7_Witness ==
    /\ lastCall.op = "updateMemory" /\ lastCall.result = "Memory not found"
    /\ ~MapHas(memoryIndex, lastCall.id)
    /\ Len(memoryIndex) > 0

\* C8, as stated: removeMemory(id) for an id that is not stored fails with a
\* not-found error, it does not complete normally.
C8_RemoveUnknownThrows ==
    lastCall.op = "removeMemory" => lastCall.result \in { "true", "Memory not found" }

\* C8, amended: removeMemory(id) for an id that is not stored completes
\* normally, returns false and leaves the index as it was.
C8_RemoveUnknownReturnsFalse ==
    [][ \A id \in Ids :
          (~MapHas(memoryIndex, id) /\ RemoveMemory(id)) =>
              /\ lastCall'.op = "removeMemory"
              /\ lastCall'.result = "false"
              /\ UNCHANGED indexVars ]_vars

\* removeMemory was called for an id that is not stored, on an index that
\* holds another entry
C8_Witness ==
    /\ lastCall.op = "removeMemory" /\ lastCall.result = "false"
    /\ ~MapHas(memoryIndex, lastCall.id)
    /\ Len(memoryIndex) > 0

\* the normalized path of the root of the last resolveImports call
RootPath == Str(resolve(Chars(lastResolve.filePath)))

\* number of results with the given path
CountPath(results, path) == Cardinality({ i \in 1..Len(results) : results[i].path = path })

\* a resolveImports call was made on a resolver with an empty cache
ResolvedFromEmptyCache == lastResolve.filePath # "" /\ lastResolve.cacheWasEmpty

\* C4: if A imports B and B imports A then, on a resolver with an empty cache
\* and for every maxDepth >= 1, resolveImports(A) returns a list that holds A
\* exactly once and B exactly once, and logs a circular-import warning for
\* the reference back to A.
C4_CycleSafety ==
    ( /\ fileSystem.files = FilesCycle
      /\ ResolvedFromEmptyCache
      /\ lastResolve.maxDepth >= 1 ) =>
        /\ ~lastResolve.threw
        /\ \A p \in DOMAIN FilesCycle : CountPath(lastResolve.results, p) = 1
        /\ \E i \in 1..Len(lastResolve.log) :
              /\ lastResolve.log[i].level = "warn"
              /\ lastResolve.log[i].what = "Circular import detected"
              /\ lastResolve.log[i].path = RootPath

\* the files of the chain, each importing the next one
ChainOrder == << "/r/c1.md", "/r/c2.md", "/r/c3.md", "/r/c4.md" >>

\* C5: for a chain of N files in which each file imports only the next one,
\* resolveImports of the first file with maxDepth = K on a resolver with an
\* empty cache returns content for exactly min(N, K + 1) files: the first
\* min(N, K + 1) files of the chain, in chain order.
C5_DepthBound ==
    ( fileSystem.files = FilesChain /\ ResolvedFromEmptyCache ) =>
        LET first == CHOOSE k \in 1..Len(ChainOrder) : ChainOrder[k] = RootPath
            N == Len(ChainOrder) - first + 1
            count == Min(N, lastResolve.maxDepth + 1)
        IN  /\ ~lastResolve.threw
            /\ PathsOf(lastResolve.results) = SubSeq(ChainOrder, first, first + count - 1)

\* the chain of four files was resolved from its first file with a maxDepth
\* that cut it after the third
C5_Witness ==
    /\ fileSystem.files = FilesChain /\ ResolvedFromEmptyCache
    /\ lastResolve.filePath = "/r/c1.md"
    /\ lastResolve.maxDepth = 2
    /\ Len(lastResolve.results) = 3
    /\ \E i \in 1..Len(lastResolve.log) : lastResolve.log[i].what = "Max depth reached"

\* C9: resolveImports rejects only when reading the root path itself fails:
\* failures below the root are absorbed. When it rejects, nothing has been
\* added to the content cache or to the dependency graph.
C9_OnlyRootFailureRejects ==
    [][ lastResolve'.threw =>
          LET root == Str(resolve(Chars(lastResolve'.filePath)))
          IN  /\ lastResolve'.reads = << root >>
              /\ ~Readable(fileSystem.files, root)
              /\ \A k \in DOMAIN importCache' :
                    k \in DOMAIN importCache /\ importCache'[k] = importCache[k]
              /\ \A k \in DOMAIN importGraph' :
                    k \in DOMAIN importGraph /\ importGraph'[k] = importGraph[k] ]_vars

\* a call whose root could not be read rejected on a resolver whose cache
\* holds a parent resolved earlier, with its nested failures absorbed
C9_Witness ==
    /\ lastResolve.threw
    /\ fileSystem.files = FilesSiblings
    /\ "/r/p.md" \in DOMAIN importCache
    /\ "/r/s2.md" \in DOMAIN importCache
    /\ RootPath \notin DOMAIN importCache

\* the path import i of an import loop resolves to
TargetCs(frame, i) ==
    resolveImportPath(frame.imports[i], dirname(Chars(lastResolve.filePath)))

TargetOf(frame, i) == Str(TargetCs(frame, i))

\* the character sequence ends with the suffix
EndsWith(cs, suffix) ==
    Len(cs) >= Len(suffix) /\ SubSeq(cs, Len(cs) - Len(suffix) + 1, Len(cs)) = suffix

\* import i of an import loop is missing, has a disallowed extension, closes
\* a cycle, exceeds maxDepth or cannot be read
BadImport(frame, i) ==
    LET target == TargetOf(frame, i)
        files == fileSystem.files
    IN  \/ target \notin DOMAIN files
        \/ ~\E e \in DefaultAllowedExtensions : EndsWith(TargetCs(frame, i), Chars(e))
        \/ target \in frame.visited
        \/ frame.depth + 1 > lastResolve.maxDepth
        \/ ~files[target].readable

\* C10: a nested import that is missing, has a disallowed extension, closes a
\* cycle, exceeds maxDepth or fails to read contributes nothing to the result;
\* every other import contributes its file, followed by what that file
\* imports; and the result is the parent followed by the contributions of its
\* imports in declaration order.
C10_BadImportSkippedSiblingsKept ==
    LET loops == lastResolve.loops
    IN  /\ \A n \in 1..Len(loops) :
              LET frame == loops[n]
              IN  /\ Len(frame.nested) = Len(frame.imports)
                  /\ \A i \in 1..Len(frame.imports) :
                        IF BadImport(frame, i)
                        THEN frame.nested[i] = << >>
                        ELSE \/ frame.nested[i] = << TargetOf(frame, i) >>
                             \/ \E m \in 1..Len(loops) :
                                   /\ loops[m].path = TargetOf(frame, i)
                                   /\ frame.nested[i]
                                        = << loops[m].path >> \o Flatten(loops[m].nested)
        /\ (~lastResolve.threw /\ loops # << >>) =>
              LET frame == loops[Len(loops)]
              IN  /\ frame.path = RootPath
                  /\ PathsOf(lastResolve.results)
                        = << frame.path >> \o Flatten(frame.nested)

\* a parent was resolved whose imports are a good one, then bad ones of
\* every kind, then a good one: the result is the parent, the first import
\* with its own import, and the last import
C10_Witness ==
    /\ fileSystem.files = FilesSiblings
    /\ lastResolve.filePath = "/r/p.md"
    /\ lastResolve.maxDepth = 2
    /\ PathsOf(lastResolve.results) = << "/r/p.md", "/r/s1.md", "/r/leaf.md", "/r/s2.md" >>
    /\ \E n \in 1..Len(lastResolve.loops) :
          LET frame == lastResolve.loops[n]
          IN  /\ frame.path = "/r/p.md"
              /\ \E i, j, k \in 1..Len(frame.imports) :
                    /\ i < j /\ j < k
                    /\ ~BadImport(frame, i) /\ BadImport(frame, j) /\ ~BadImport(frame, k)

(***************************************************************************)
(* C11: overlapping indexMemory calls for distinct ids                     *)
(***************************************************************************)

\* the calls of `done`, run one after the other in the order `order` from
\* the index `base`, each at the time it was resumed
RECURSIVE SequentialRun(_, _, _, _)
SequentialRun(base, done, order, k) ==
    IF k = 0
    THEN base
    ELSE LET d == done[order[k]]
         IN  indexMemory(SequentialRun(base, done, order, k - 1), d.call.id,
                         d.call.content, d.call.metadata, d.call.source, d.t)

Orders(n) == { f \in [1..n -> 1..n] : \A i, j \in 1..n : f[i] = f[j] => i = j }

\* C11: when indexMemory calls for distinct ids have overlapped and all of
\* them have run to their end, the entry store and the two posting maps are
\* those of a run of the same calls one after the other, in some order
C11_OverlappingCallsSerializable ==
    (pending = << >> /\ Len(lastBatch.done) >= 2)
       => \E order \in Orders(Len(lastBatch.done)) :
             Index = SequentialRun(lastBatch.base, lastBatch.done, order,
                                   Len(lastBatch.done))

\* two calls with different contents overlapped and the one started second
\* has finished first
C11_Witness ==
    /\ pending = << >>
    /\ Len(lastBatch.done) = 2
    /\ lastBatch.done[1].seq = 2
    /\ lastBatch.done[1].call.id # lastBatch.done[2].call.id
    /\ lastBatch.done[1].call.content # lastBatch.done[2].call.content
    /\ lastBatch.done[1].t # lastBatch.done[2].t

(***************************************************************************)
(* C12..C15: search                                                        *)
(***************************************************************************)

StoredIds == { memoryIndex[i].id : i \in 1..Len(memoryIndex) }

ResultIds == { lastSearch.results[i].id : i \in 1..Len(lastSearch.results) }

\* C12: the candidate set of a search is the union of the posting sets of
\* the query's keywords and entities when that union is not empty, and then
\* no entry outside the union is returned; when the union is empty, every
\* entry of the index is a candidate.
C12_CandidatesAreUnionOrAll ==
    lastSearch.op = "search" =>
        LET union == SeqToSet(lastSearch.matched)
            candidates == SeqToSet(lastSearch.candidates)
        IN  /\ union # {} => candidates = union /\ ResultIds \subseteq union
            /\ union = {} => candidates = StoredIds

\* the candidates of the last search that are not among its results
LeftOut == { i \in 1..Len(lastSearch.candidates) : lastSearch.candidates[i] \notin ResultIds }

\* C13: a search with maxResults >= 0 returns only results that meet
\* minRelevanceScore, in non-increasing order of relevanceScore and at most
\* maxResults of them, and no candidate that meets the threshold and was left
\* out scores strictly higher than a returned one.
C13_FilteredSortedTruncated ==
    (lastSearch.op = "search" /\ lastSearch.opts.maxResults >= 0) =>
        LET results == lastSearch.results
        IN  /\ \A i \in 1..Len(results) :
                  results[i].relevanceScore >= lastSearch.opts.minRelevanceScore
            /\ \A i, j \in 1..Len(results) :
                  i < j => results[i].relevanceScore >= results[j].relevanceScore
            /\ Len(results) <= lastSearch.opts.maxResults
            /\ \A c \in LeftOut, i \in 1..Len(results) :
                  lastSearch.scored[c] >= lastSearch.opts.minRelevanceScore
                     => lastSearch.scored[c] <= results[i].relevanceScore

\* a search with maxResults 1 had two candidates over the threshold, the one
\* stored first scoring lower, and returned the other one
C13_Witness ==
    /\ lastSearch.op = "search"
    /\ lastSearch.opts.maxResults = 1
    /\ Len(lastSearch.results) = 1
    /\ Len(lastSearch.candidates) = 2
    /\ lastSearch.scored[1] >= lastSearch.opts.minRelevanceScore
    /\ lastSearch.scored[1] < lastSearch.scored[2]
    /\ lastSearch.results[1].id = lastSearch.candidates[2]

\* C14: every relevanceScore that search or findSimilar returns lies in
\* [0, 1], for entries with and without metadata.priority 'high'.
C14_ScoreWithinUnitInterval ==
    (lastSearch.op \in { "search", "findSimilar" }) =>
        \A i \in 1..Len(lastSearch.results) :
            /\ lastSearch.results[i].relevanceScore >= 0
            /\ lastSearch.results[i].relevanceScore <= ScoreUnit

\* a search returned an entry of priority 'high' whose content is the query:
\* its weighted sum is 0.85 or more and the boost takes it over 1
C14_Witness ==
    /\ lastSearch.op = "search"
    /\ \E i \in 1..Len(lastSearch.results) :
          /\ HasHighPriority(lastSearch.results[i].metadata)
          /\ lastSearch.results[i].content = lastSearch.query
          /\ lastSearch.results[i].relevanceScore = ScoreUnit
    /\ \E i \in 1..Len(lastSearch.results) :
          ~HasHighPriority(lastSearch.results[i].metadata)

\* the candidates of the last search, as stored
CandidateEntry(i) == MapGet(memoryIndex, lastSearch.candidates[i])

\* the candidates i and j have the same vector similarity, keyword overlap
\* and entity overlap with the query of the last search
EqualOverlap(i, j) ==
    LET query == lastSearch.query
        a == CandidateEntry(i)
        b == CandidateEntry(j)
    IN  /\ cosineSimilarity(VectorsOf[query], a.vectors)
              = cosineSimilarity(VectorsOf[query], b.vectors)
        /\ calculateKeywordRelevance(KeywordsOf[query], a.keywords)
              = calculateKeywordRelevance(KeywordsOf[query], b.keywords)
        /\ calculateEntityRelevance(EntitiesOf[query], a.entities)
              = calculateEntityRelevance(EntitiesOf[query], b.entities)

\* C15, as stated: of two entries scored in one search with equal vector
\* similarity, keyword overlap and entity overlap, the one with the later
\* timestamp never gets the lower relevanceScore.
C15_LaterNeverLower ==
    lastSearch.op = "search" =>
        \A i, j \in 1..Len(lastSearch.candidates) :
            (EqualOverlap(i, j)
             /\ CandidateEntry(i).timestamp > CandidateEntry(j).timestamp)
                => lastSearch.scored[i] >= lastSearch.scored[j]

\* the two candidates agree on the other two inputs of the score: whether
\* the content contains the query, and whether the priority is 'high'
EqualPhraseAndPriority(i, j) ==
    /\ PhraseTable[CandidateEntry(i).content, lastSearch.query]
          = PhraseTable[CandidateEntry(j).content, lastSearch.query]
    /\ HasHighPriority(CandidateEntry(i).metadata)
          = HasHighPriority(CandidateEntry(j).metadata)

\* C15, amended: of two entries scored in one search with equal vector
\* similarity, keyword overlap and entity overlap, that both contain the
\* query or both do not and both have priority 'high' or both have not, the
\* one with the later timestamp never gets the lower relevanceScore.
C15_LaterNeverLowerOtherSignalsEqual ==
    lastSearch.op = "search" =>
        \A i, j \in 1..Len(lastSearch.candidates) :
            (EqualOverlap(i, j) /\ EqualPhraseAndPriority(i, j)
             /\ CandidateEntry(i).timestamp > CandidateEntry(j).timestamp)
                => lastSearch.scored[i] >= lastSearch.scored[j]

\* two entries with the same overlap, phrase match and priority were scored,
\* and the later one scored strictly higher
C15_Witness ==
    /\ lastSearch.op = "search"
    /\ \E i, j \in 1..Len(lastSearch.candidates) :
          /\ EqualOverlap(i, j) /\ EqualPhraseAndPriority(i, j)
          /\ CandidateEntry(i).timestamp > CandidateEntry(j).timestamp
          /\ lastSearch.scored[i] > lastSearch.scored[j]

\* the number of occurrences of a keyword in the keywords of the stored entries
TotalOccurrences(keyword) ==
    SumSeq([m \in 1..Len(memoryIndex) |->
              Cardinality({ i \in 1..Len(memoryIndex[m].keywords) :
                              memoryIndex[m].keywords[i] = keyword })])

\* C16: getTrendingKeywords returns at most 20 keywords, and none whose total
\* number of occurrences over the stored entries is below 3.
C16_TrendingHaveMinimumCount ==
    lastSearch.op = "getTrendingKeywords" =>
        /\ Len(lastSearch.results) <= 20
        /\ \A i \in 1..Len(lastSearch.results) :
              TotalOccurrences(lastSearch.results[i].keyword) >= 3

\* 21 keywords occur three times and others less often: 20 are returned
C16_Witness ==
    /\ lastSearch.op = "getTrendingKeywords"
    /\ Len(lastSearch.results) = 20
    /\ \E m \in 1..Len(memoryIndex) : \E i \in 1..Len(memoryIndex[m].keywords) :
          LET total == TotalOccurrences(memoryIndex[m].keywords[i])
          IN  total > 0 /\ total < 3

\* C17: the score lintMemory returns is at least 0 and at most 100, whatever
\* the content and whatever issues the enabled rules emit.
C17_LintScoreWithinBounds ==
    (lastLint.op = "lintMemory" /\ ~lastLint.result.threw) =>
        /\ lastLint.result.score >= 0
        /\ lastLint.result.score <= 100 * ScoreUnit

\* issues of more than one severity cost more than the 100 points and the
\* bonus: the score is 0
C17_Witness ==
    /\ lastLint.op = "lintMemory"
    /\ ~lastLint.result.threw
    /\ lastLint.result.summary.errors > 0
    /\ lastLint.result.summary.warnings > 0
    /\ calculateQualityScoreUnclamped(lastLint.content, lastLint.result.issues) < 0
    /\ lastLint.result.score = 0

\* C18: findSimilar(id) for a stored id returns what search returns for the
\* entry's content under the caller's options with searchScope 'all', and
\* with the default options and an index of at most maxResults entries the
\* entry itself is among the results.
C18_FindSimilarSearchesOwnContent ==
    (lastSearch.op = "findSimilar" /\ ~lastSearch.threw) =>
        LET entry == MapGet(memoryIndex, lastSearch.memoryId)
            options == Spread(lastSearch.options, [searchScope |-> "all"])
        IN  /\ lastSearch.results =
                  search(Index, entry.content, Spread(DefaultOptions, options),
                         lastSearch.t)
            /\ (lastSearch.options = EmptyMap
                /\ Len(memoryIndex) <= DefaultOptions.maxResults)
               => lastSearch.memoryId \in ResultIds

\* findSimilar with the default options returns the entry itself and another
\* entry
C18_Witness ==
    /\ lastSearch.op = "findSimilar"
    /\ ~lastSearch.threw
    /\ lastSearch.options = EmptyMap
    /\ lastSearch.memoryId \in ResultIds
    /\ Len(lastSearch.results) = 2

\* the files the import loop of a file descends into, in declaration order:
\* the targets that have an allowed extension and exist
Children(fs, path, basePath) ==
    LET imports == ImportsOf[fs[path].content]
        target(i) == resolveImportPath(imports[i], basePath)
        ok == { i \in 1..Len(imports) :
                  /\ isAllowedExtension(target(i), DefaultAllowedExtensions)
                  /\ Accessible(fs, Str(target(i))) }
    IN  [k \in 1..Cardinality(ok) |-> Str(resolve(target(NthOf(ok, k))))]

\* the depth-first pre-order list of the import tree below path: the file,
\* then the list of each of its imports in declaration order. A branch ends
\* at a file that is on the path from the root, beyond maxDepth or unreadable.
RECURSIVE Preorder(_, _, _, _, _, _)
Preorder(fs, path, basePath, depth, maxDepth, visited) ==
    IF depth > maxDepth \/ path \in visited \/ ~Readable(fs, path) THEN << >>
    ELSE LET children == Children(fs, path, basePath)
         IN  << path >>
             \o Concat([i \in 1..Len(children) |->
                          Preorder(fs, children[i], basePath, depth + 1, maxDepth,
                                   visited \cup { path })])

\* the same list when a file that was listed before contributes only itself:
\* [list, seen], seen being the files listed so far
RECURSIVE PreorderOnce(_, _, _, _, _, _, _)
RECURSIVE PreorderEach(_, _, _, _, _, _, _, _)
PreorderOnce(fs, path, basePath, depth, maxDepth, visited, seen) ==
    IF depth > maxDepth \/ path \in visited THEN [ list |-> << >>, seen |-> seen ]
    ELSE IF path \in seen THEN [ list |-> << path >>, seen |-> seen ]
    ELSE IF ~Readable(fs, path) THEN [ list |-> << >>, seen |-> seen ]
    ELSE PreorderEach(fs, Children(fs, path, basePath), 1, basePath, depth, maxDepth,
                      visited \cup { path },
                      [ list |-> << path >>, seen |-> seen \cup { path } ])

PreorderEach(fs, children, i, basePath, depth, maxDepth, visited, acc) ==
    IF i > Len(children) THEN acc
    ELSE LET sub == PreorderOnce(fs, children[i], basePath, depth + 1, maxDepth,
                                 visited, acc.seen)
         IN  PreorderEach(fs, children, i + 1, basePath, depth, maxDepth, visited,
                          [ list |-> acc.list \o sub.list, seen |-> sub.seen ])

\* C19 as stated: on a resolver with an empty cache resolveImports returns
\* the depth-first pre-order list of the import tree: the root first, then for
\* each import in declaration order the complete list of its subtree.
C19_PreorderOfImportTree ==
    (ResolvedFromEmptyCache /\ ~lastResolve.threw) =>
        /\ PathsOf(lastResolve.results)
              = Preorder(fileSystem.files, RootPath, dirname(Chars(lastResolve.filePath)),
                         0, lastResolve.maxDepth, {})
        /\ lastResolve.results[1].depth = 0

\* C19: on a resolver with an empty cache resolveImports returns the root
\* first (depth 0), then for each import in declaration order the list of its
\* subtree before anything of the next sibling, where an import of a file
\* that the call has listed before contributes that file alone.
C19_PreorderListingSubtreesOnce ==
    (ResolvedFromEmptyCache /\ ~lastResolve.threw) =>
        /\ PathsOf(lastResolve.results)
              = PreorderOnce(fileSystem.files, RootPath,
                             dirname(Chars(lastResolve.filePath)), 0,
                             lastResolve.maxDepth, {}, {}).list
        /\ lastResolve.results[1].depth = 0

\* the diamond was resolved from its top on an empty cache: the shared file
\* is listed with its import below the first branch and alone below the second
C19_Witness ==
    /\ fileSystem.files = FilesDiamond
    /\ ResolvedFromEmptyCache
    /\ lastResolve.maxDepth = 3
    /\ PathsOf(lastResolve.results)
          = << "/r/d.md", "/r/l.md", "/r/e.md", "/r/f.md", "/r/r.md", "/r/e.md" >>

RECURSIVE ImportedBelow(_, _, _, _)
ImportedBelow(fs, basePath, from, found) ==
    LET step == UNION { SeqToSet(Children(fs, p, basePath))
                        : p \in { q \in from : Readable(fs, q) } }
    IN  IF step \subseteq found THEN found
        ELSE ImportedBelow(fs, basePath, step \ found, found \cup step)

\* path is imported, directly or through other files, by itself
OnImportCycle(fs, basePath, path) == path \in ImportedBelow(fs, basePath, { path }, {})

\* the lines of a log that say what
LinesOf(log, what) == { i \in 1..Len(log) : log[i].what = what }

\* C21: a call of resolveImports warns of a circular import only for a path
\* that is imported, directly or through other files, by itself; and in every
\* import loop the call runs, an import of a readable file within maxDepth
\* that does not lead back to the importing file is listed under it, whether
\* or not another branch of the call listed the same file before (the
\* diamond).
C21_DiamondImportsAllowed ==
    LET call == lastResolve
        fs == fileSystem.files
        basePath == dirname(Chars(call.filePath))
    IN  call.filePath # "" =>
          /\ \A n \in LinesOf(call.log, "Circular import detected") :
                OnImportCycle(fs, basePath, call.log[n].path)
          /\ \A n \in 1..Len(call.loops) :
                LET loop == call.loops[n]
                IN  \A i \in 1..Len(loop.imports) :
                      LET target == resolveImportPath(loop.imports[i], basePath)
                          child == Str(resolve(target))
                      IN  ( /\ isAllowedExtension(target, DefaultAllowedExtensions)
                            /\ Accessible(fs, Str(target))
                            /\ Readable(fs, child)
                            /\ loop.depth + 1 <= call.maxDepth
                            /\ child # loop.path
                            /\ loop.path \notin ImportedBelow(fs, basePath, { child }, {}) )
                          => /\ loop.nested[i] # << >>
                             /\ loop.nested[i][1] = child

\* the diamond was resolved from its top: both branches list the shared file
\* and no circular import was reported
C21_Witness ==
    /\ fileSystem.files = FilesDiamond
    /\ lastResolve.filePath = "/r/d.md"
    /\ lastResolve.maxDepth >= 2
    /\ LinesOf(lastResolve.log, "Circular import detected") = {}
    /\ \E n, m \in 1..Len(lastResolve.loops) :
          /\ lastResolve.loops[n].path = "/r/l.md"
          /\ lastResolve.loops[m].path = "/r/r.md"
          /\ lastResolve.loops[n].nested[1][1] = "/r/e.md"
          /\ lastResolve.loops[m].nested[1][1] = "/r/e.md"

CountReads(reads, path) == Cardinality({ i \in 1..Len(reads) : reads[i] = path })

\* C23: every call of resolveImports comes to an end, whatever the imports of
\* the files are (a file importing itself, a cycle, a diamond) and whatever
\* maxDepth is; and between two clearCache calls no file is read more than
\* once: a call reads only files that are not in the cache, reads each of
\* them once, runs the import loop of each once and leaves it in the cache,
\* and only clearCache takes a file out of the cache. A readFile that fails
\* reads nothing and is not counted.
C23_TerminatesReadingEachFileOnce ==
    [][ /\ lastResolve' # lastResolve =>
              LET call == lastResolve'
                  read == { p \in SeqToSet(call.reads) : Readable(fileSystem.files, p) }
              IN  /\ call.filePath # ""
                  /\ \A p \in read :
                        /\ p \notin DOMAIN importCache
                        /\ CountReads(call.reads, p) = 1
                        /\ p \in DOMAIN importCache'
                        /\ Cardinality({ n \in 1..Len(call.loops) :
                                           call.loops[n].path = p }) <= 1
                  /\ \A n \in 1..Len(call.loops) : call.loops[n].path \in read
        /\ \/ DOMAIN importCache \subseteq DOMAIN importCache'
           \/ importCache' = EmptyMap ]_vars

\* the diamond was resolved from its top on an empty cache: the shared file
\* is listed twice and was read once; so was every other file
C23_Witness ==
    /\ fileSystem.files = FilesDiamond
    /\ ResolvedFromEmptyCache
    /\ CountPath(lastResolve.results, "/r/e.md") = 2
    /\ lastResolve.reads = << "/r/d.md", "/r/l.md", "/r/e.md", "/r/f.md", "/r/r.md" >>

\* the paths callers ask a resolver about
AskedPaths == DOMAIN fileSystem.files \cup fileSystem.roots

\* C24: a clearCache step leaves the content cache empty and getDependencies
\* returning [] for every path; and a resolveImports call on a resolver in
\* the state clearCache leaves returns the list a resolver that was just
\* created returns for the same path and options.
C24_ClearCacheResetsResolver ==
    [][ /\ (importCache' = EmptyMap /\ lastResolve' = lastResolve) =>
              \A p \in AskedPaths : getDependencies(importGraph', p) = << >>
        /\ (importCache = EmptyMap /\ lastResolve' # lastResolve) =>
              LET call == lastResolve'
                  fresh == resolveImports(fileSystem.files, EmptyMap, EmptyMap,
                                          call.filePath, call.maxDepth, now)
              IN  /\ \A p \in AskedPaths : getDependencies(importGraph, p) = << >>
                  /\ call.threw = fresh.threw
                  /\ call.results = fresh.results ]_vars

\* clearCache was called on a resolver that had resolved the diamond
C24_Witness ==
    /\ importCache = EmptyMap
    /\ importGraph = EmptyMap
    /\ lastResolve.filePath = "/r/d.md"
    /\ Len(lastResolve.results) = 6

\* the rules of the linter that do not throw when they are applied
RulesNotThrowing ==
    LET quiet == { i \in 1..Len(rules) : ~rules[i].throws }
    IN  [k \in 1..Cardinality(quiet) |-> rules[NthOf(quiet, k)]]

\* C25: when applying one enabled rule throws, lintMemory does not reject: it
\* returns the LintResult of the issues of the other enabled rules.
C25_ThrowingRuleIsSkipped ==
    ( /\ lastLint.op = "lintMemory"
      /\ \E i \in 1..Len(rules) : rules[i].enabled /\ rules[i].throws ) =>
        /\ ~lastLint.result.threw
        /\ lastLint.result = LintResult(lastLint.content,
                                        IssuesOf(RulesNotThrowing, lastLint.content))

\* the ids of the rules that belong to the linting of a CLAUDE file
ClaudeFileRuleIds == { "import-syntax", "claude-header", "claude-structure" }

\* C26: lintMemory on a linter with the default rules emits no issue of the
\* rules import-syntax, claude-header and claude-structure.
C26_ClaudeFileRulesNotInLintMemory ==
    (lastLint.op = "lintMemory" /\ rules = DefaultRules) =>
        \A i \in 1..Len(lastLint.result.issues) :
            lastLint.result.issues[i].ruleId \notin ClaudeFileRuleIds

\* C27: the issues lintMemory returns are issues of rules that are enabled
\* when it runs; setRuleEnabled(r, false) on a rule the linter holds returns
\* true and leaves r disabled; and setRuleEnabled on an id the linter does
\* not hold returns false and changes no rule.
C27_OnlyEnabledRulesRun ==
    [][ /\ (lastLint' # lastLint /\ lastLint'.op = "lintMemory") =>
              \A i \in 1..Len(lastLint'.result.issues) :
                  LET ruleId == lastLint'.result.issues[i].ruleId
                  IN  HasRule(rules, ruleId) /\ getRule(rules, ruleId).enabled
        /\ \A ruleId \in RuleIdArgs, enabled \in BOOLEAN :
              SetRuleEnabled(ruleId, enabled) =>
                  IF HasRule(rules, ruleId)
                  THEN /\ lastCall'.result = "true"
                       /\ getRule(rules', ruleId).enabled = enabled
                  ELSE /\ lastCall'.result = "false"
                       /\ rules' = rules
                       /\ otherRules' = otherRules
                       /\ callerRules' = callerRules ]_vars

\* the import rule was switched off and a content with imports was linted:
\* no issue of the rule is among the issues
C27_Witness ==
    /\ lastLint.op = "lintMemory"
    /\ lastLint.content = LintImports
    /\ ~lastLint.result.threw
    /\ HasRule(rules, "import-syntax")
    /\ ~getRule(rules, "import-syntax").enabled
    /\ IssuesTable[LintImports, "import-syntax",
                   getRule(rules, "import-syntax").severity] # << >>
    /\ \A i \in 1..Len(lastLint.result.issues) :
          lastLint.result.issues[i].ruleId # "import-syntax"

\* C28: no addRule or setRuleEnabled call on one linter changes the rules of
\* another linter or what the other's lintMemory returns.
C28_RulesPerInstance ==
    [][ ( \/ \E rule \in RuleArgs : OtherAddRule(rule)
          \/ \E ruleId \in RuleIdArgs, enabled \in BOOLEAN :
                OtherSetRuleEnabled(ruleId, enabled) ) =>
            /\ rules' = rules
            /\ \A content \in SharedLintContents :
                  lintMemory(rules', content) = lintMemory(rules, content) ]_vars

\* every coordinate of the vector is 0
IsZeroVector(vector) == \A k \in DOMAIN vector.at : vector.at[k] = 0

\* C29: every stored entry's vector has exactly vectorDimensions = 384
\* coordinates, and all of them are 0 exactly when the entry's content yields
\* no keyword.
C29_VectorsHaveDimensionD ==
    \A i \in 1..Len(memoryIndex) :
        LET entry == memoryIndex[i]
        IN  /\ entry.vectors.length = 384
            /\ DOMAIN entry.vectors.at \subseteq 0..383
            /\ IsZeroVector(entry.vectors) <=> (extractKeywords(entry.content) = << >>)

\* an update stored a content without keywords next to an entry with keywords
C29_Witness ==
    /\ lastCall.op = "updateMemory"
    /\ lastCall.result = "ok"
    /\ lastCall.content = TextNoKeywords
    /\ \E i \in 1..Len(memoryIndex) :
          /\ memoryIndex[i].id = lastCall.id
          /\ memoryIndex[i].content = TextNoKeywords
          /\ IsZeroVector(memoryIndex[i].vectors)
    /\ \E i \in 1..Len(memoryIndex) :
          /\ memoryIndex[i].keywords # << >>
          /\ ~IsZeroVector(memoryIndex[i].vectors)

\* metadata.priority === 'high', or metadata.important is truthy
IsImportant(metadata) ==
    \/ "priority" \in DOMAIN metadata /\ metadata["priority"] = "high"
    \/ "important" \in DOMAIN metadata /\ metadata["important"] = TRUE

\* C30: every result of a search is a stored entry that satisfies the filters
\* of the call: its timestamp is within [timeRange.start, timeRange.end] when
\* a timeRange is given, it is at most 7 days old when the scope is 'recent',
\* and its priority is 'high' or its metadata.important is truthy when the
\* scope is 'important'; also when no keyword or entity of the query matched
\* and the candidates are the whole index.
C30_ResultsSatisfyFilters ==
    lastSearch.op = "search" =>
        \A i \in 1..Len(lastSearch.results) :
            LET result == lastSearch.results[i]
                opts == lastSearch.opts
            IN  /\ \E k \in 1..Len(memoryIndex) :
                      /\ memoryIndex[k].id = result.id
                      /\ memoryIndex[k].timestamp = result.timestamp
                      /\ memoryIndex[k].metadata = result.metadata
                /\ opts.timeRange # NoTimeRange =>
                      /\ result.timestamp >= opts.timeRange.start
                      /\ result.timestamp <= opts.timeRange.end
                /\ opts.searchScope = "recent" =>
                      lastSearch.t - result.timestamp <= 7
                /\ opts.searchScope = "important" => IsImportant(result.metadata)

\* no keyword or entity matched, the whole index was taken, the scope left
\* one of the two stored entries out and the other one is the result
C30_Witness ==
    /\ lastSearch.op = "search"
    /\ lastSearch.matched = << >>
    /\ lastSearch.opts.searchScope \in { "recent", "important" }
    /\ Len(memoryIndex) = 2
    /\ Len(lastSearch.candidates) = 1
    /\ Len(lastSearch.results) = 1

\* the stored ids that a posting set of one of the lower-cased terms holds
PostedIds(index, terms) ==
    { id \in StoredIds :
        \E k \in 1..Len(terms) :
            /\ toLowerCase(terms[k]) \in DOMAIN index
            /\ id \in SeqToSet(index[toLowerCase(terms[k])]) }

\* Jaccard similarity of two sets of terms, in 1/ScoreUnit
Jaccard(a, b) ==
    IF a \cap b = {} THEN 0
    ELSE (Cardinality(a \cap b) * ScoreUnit) \div Cardinality(a \cup b)

\* the part of the terms of a that b holds, in 1/ScoreUnit
Precision(a, b) ==
    IF a \cap b = {} THEN 0
    ELSE (Cardinality(a \cap b) * ScoreUnit) \div Cardinality(a)

\* the results are the entries of the ids, each of them once
ResultsAreEntries(ids) ==
    /\ Len(lastSearch.results) = Cardinality(ids)
    /\ ResultIds = ids
    /\ \A i \in 1..Len(lastSearch.results) :
          LET result == lastSearch.results[i]
              entry == MapGet(memoryIndex, result.id)
          IN  /\ result.content = entry.content
              /\ result.metadata = entry.metadata
              /\ result.source = entry.source
              /\ result.timestamp = entry.timestamp

ResultsNonIncreasing ==
    \A i \in 1..(Len(lastSearch.results) - 1) :
        lastSearch.results[i].relevanceScore >= lastSearch.results[i + 1].relevanceScore

\* C31: getByKeywords(K) returns exactly the stored entries whose id is in the
\* posting set of a lower-cased keyword of K, each scored by the Jaccard
\* similarity of K and the entry's keywords, highest score first;
\* getByEntities does the same over the entity postings with the precision
\* of the entities as the score. The score depends on the terms only.
C31_LookupsByPostingsScoredAndSorted ==
    /\ lastSearch.op = "getByKeywords" =>
          /\ ResultsAreEntries(PostedIds(keywordInvertedIndex, lastSearch.terms))
          /\ ResultsNonIncreasing
          /\ \A i \in 1..Len(lastSearch.results) :
                lastSearch.results[i].relevanceScore
                    = Jaccard(LowerSet(lastSearch.terms),
                              LowerSet(MapGet(memoryIndex, lastSearch.results[i].id).keywords))
    /\ lastSearch.op = "getByEntities" =>
          /\ ResultsAreEntries(PostedIds(entityIndex, lastSearch.terms))
          /\ ResultsNonIncreasing
          /\ \A i \in 1..Len(lastSearch.results) :
                lastSearch.results[i].relevanceScore
                    = Precision(LowerSet(lastSearch.terms),
                                LowerSet(MapGet(memoryIndex, lastSearch.results[i].id).entities))

\* a keyword written with a capital found two entries, and the entry stored
\* last has the higher score and comes first
C31_Witness ==
    /\ lastSearch.op = "getByKeywords"
    /\ lastSearch.terms = << "Tests" >>
    /\ Len(lastSearch.results) = 2
    /\ lastSearch.results[1].id = memoryIndex[2].id
    /\ lastSearch.results[1].relevanceScore > lastSearch.results[2].relevanceScore

\* the raw import tokens of the file at a normalized path
TokensOf(path) == SeqToSet(StrEach(ImportsOf[fileSystem.files[path].content]))

\* C32: once resolveImports has read and expanded the file it was called
\* for, getDependencies returns the raw import tokens of that file, for the
\* path as it was passed to resolveImports and for the normalized absolute
\* path alike.
C32_DependenciesInEitherForm ==
    ( /\ lastResolve # NoResolve
      /\ Str(resolve(Chars(lastResolve.filePath))) \in DOMAIN importCache ) =>
        LET normalizedPath == Str(resolve(Chars(lastResolve.filePath)))
        IN  /\ SeqToSet(getDependencies(importGraph, lastResolve.filePath))
                  = TokensOf(normalizedPath)
            /\ SeqToSet(getDependencies(importGraph, normalizedPath))
                  = TokensOf(normalizedPath)

\* the id is in the posting set of the lower-cased term
Posted(index, term, id) ==
    /\ toLowerCase(term) \in DOMAIN index
    /\ id \in SeqToSet(index[toLowerCase(term)])

\* C33: in every state, the states in which a call is suspended at its await
\* included, the id of every stored entry is in the keyword posting set of
\* each of the entry's keywords and in the entity posting set of each of the
\* entry's entities.
C33_StoredEntriesArePosted ==
    \A i \in 1..Len(memoryIndex) :
        LET entry == memoryIndex[i]
        IN  /\ \A k \in 1..Len(entry.keywords) :
                  Posted(keywordInvertedIndex, entry.keywords[k], entry.id)
            /\ \A k \in 1..Len(entry.entities) :
                  Posted(entityIndex, entry.entities[k], entry.id)

\* the id is neither stored nor in a posting set
Absent(id) ==
    /\ id \notin StoredIds
    /\ \A key \in DOMAIN keywordInvertedIndex : id \notin SeqToSet(keywordInvertedIndex[key])
    /\ \A key \in DOMAIN entityIndex : id \notin SeqToSet(entityIndex[key])

\* C34: a removeMemory(id) that returns true leaves id neither stored nor in
\* a posting set, and after it no step other than the start of a new
\* indexMemory(id) stores or posts id again, the resumption of an
\* updateMemory(id) that was suspended when removeMemory ran included.
C34_RemoveMemoryIsFinal ==
    [][ \A id \in Ids :
          /\ (lastCall' = Call("removeMemory", id, "", "true") /\ memoryIndex' # memoryIndex)
                => Absent(id)'
          /\ ( /\ lastCall = Call("removeMemory", id, "", "true")
               /\ Absent(id)
               /\ ~StartIndexMemory(id, TextM1, EmptyMap) )
                => Absent(id)' ]_vars

\* C35: every key of the keyword map and of the entity map maps to a set of
\* ids that is not empty.
C35_NoEmptyPostingSet ==
    /\ \A key \in DOMAIN keywordInvertedIndex : Len(keywordInvertedIndex[key]) > 0
    /\ \A key \in DOMAIN entityIndex : Len(entityIndex[key]) > 0

\* an entry was removed whose keyword `tests` another entry shares: the set
\* of `tests` is kept, and the sets of the keywords and the entity that only
\* the removed entry had are gone with their keys
C35_Witness ==
    /\ lastCall = Call("removeMemory", "m1", "", "true")
    /\ StoredIds = { "m2" }
    /\ "tests" \in DOMAIN keywordInvertedIndex
    /\ keywordInvertedIndex["tests"] = << "m2" >>
    /\ "production" \notin DOMAIN keywordInvertedIndex
    /\ "use" \notin DOMAIN entityIndex

\* C36: a removeMemory(id) that returns true leaves id not stored, an id that
\* is not stored becomes stored only by an indexMemory(id) call, and no
\* result of search, findSimilar, getByKeywords or getByEntities has an id
\* that is not stored: between a removal of id and the next indexMemory(id)
\* no query returns id, whatever the posting sets hold.
C36_RemovedIdsNotReturned ==
    [][ /\ \A id \in Ids :
              /\ lastCall' = Call("removeMemory", id, "", "true") => id \notin StoredIds'
              /\ (id \notin StoredIds /\ id \in StoredIds') =>
                    (lastCall'.op = "indexMemory" /\ lastCall'.id = id)
        /\ lastSearch' # lastSearch =>
              \A i \in 1..Len(lastSearch'.results) :
                  lastSearch'.results[i].id \in StoredIds ]_vars

\* m1 was removed, the posting set of `tests` still holds it from a content
\* m1 had before it was indexed again, and the lookup returned the other
\* entry only
C36_Witness ==
    /\ lastCall = Call("removeMemory", "m1", "", "true")
    /\ "m1" \notin StoredIds
    /\ Posted(keywordInvertedIndex, "Tests", "m1")
    /\ lastSearch.op = "getByKeywords"
    /\ lastSearch.terms = << "Tests" >>
    /\ ResultIds = { "m2" }

\* C37: after importIndex(snapshot), for a snapshot exportIndex has made, the
\* entry store holds the entries of snapshot.memories and nothing else, the
\* keyword and entity maps hold the keys and ids of snapshot.keywords and
\* snapshot.entities and nothing else, and the number returned is the number
\* of the entries imported.
C37_ImportReplacesIndex ==
    lastCall.op = "importIndex" =>
        LET snapshot == lastCall.snapshot
        IN  /\ memoryIndex = snapshot.memories
            /\ DOMAIN keywordInvertedIndex = DOMAIN snapshot.keywords
            /\ \A key \in DOMAIN snapshot.keywords :
                  keywordInvertedIndex[key] = snapshot.keywords[key]
            /\ DOMAIN entityIndex = DOMAIN snapshot.entities
            /\ \A key \in DOMAIN snapshot.entities :
                  entityIndex[key] = snapshot.entities[key]
            /\ lastCall.returned = Len(snapshot.memories)
            /\ lastCall.returned = Cardinality(StoredIds)

\* a snapshot with the one entry m2 was imported into an index that held m1
\* with another content: m1 and its postings are gone
C37_Witness ==
    /\ lastCall.op = "importIndex"
    /\ lastCall.before = { "m1" }
    /\ lastCall.returned = 1
    /\ StoredIds = { "m2" }
    /\ DOMAIN keywordInvertedIndex = { "deploy", "tests" }

\* C38: an indexMemory call with the content, the metadata and the source
\* the stored entry of the id already has leaves both posting maps as they
\* are, and the entry store with the same entries at the same places, one of
\* them for the id, nothing but the timestamp of that entry changed.
C38_ReindexingIsIdempotent ==
    [][ \A id \in Ids, content \in ExampleContents, metadata \in MetadataArgs :
          ( /\ IndexMemory(id, content, metadata)
            /\ MapHas(memoryIndex, id)
            /\ MapGet(memoryIndex, id).content = content
            /\ MapGet(memoryIndex, id).metadata = metadata
            /\ MapGet(memoryIndex, id).source = "unknown" ) =>
              /\ keywordInvertedIndex' = keywordInvertedIndex
              /\ entityIndex' = entityIndex
              /\ Len(memoryIndex') = Len(memoryIndex)
              /\ Cardinality({ i \in 1..Len(memoryIndex') : memoryIndex'[i].id = id }) = 1
              /\ \A i \in 1..Len(memoryIndex) :
                    memoryIndex'[i]
                        = [memoryIndex[i] EXCEPT !.timestamp = memoryIndex'[i].timestamp] ]_vars

\* m1 was stored before m2 and indexed again after it, with the content both
\* have: the posting maps hold the keywords and the entity of that content
\* only, each with the two ids in the order of the first calls
C38_Witness ==
    /\ lastCall = Call("indexMemory", "m1", TextM2, "ok")
    /\ Len(memoryIndex) = 2
    /\ memoryIndex[1].id = "m1" /\ memoryIndex[1].content = TextM2
    /\ memoryIndex[2].id = "m2" /\ memoryIndex[2].content = TextM2
    /\ memoryIndex[1].timestamp > memoryIndex[2].timestamp
    /\ \A key \in DOMAIN keywordInvertedIndex : keywordInvertedIndex[key] = << "m1", "m2" >>
    /\ entityIndex = [key \in { "deployment" } |-> << "m1", "m2" >>]

\* C39: in every LintResult of lintMemory and of lintClaudeFile the three
\* numbers of the summary are the numbers of the issues of the result with
\* the severity error, warning and info, and the score is the quality score
\* of the content with the issues of the result.
C39_SummaryCountsIssues ==
    ( /\ lastLint.op \in { "lintMemory", "lintClaudeFile" }
      /\ ~lastLint.result.threw ) =>
        LET result == lastLint.result
            count(severity) ==
                Cardinality({ i \in 1..Len(result.issues) :
                                result.issues[i].severity = severity })
        IN  /\ result.summary.errors = count("error")
            /\ result.summary.warnings = count("warning")
            /\ result.summary.infos = count("info")
            /\ result.score = calculateQualityScore(lastLint.content, result.issues)
=============================================================================
